---- MODULE Spec2Model ----
(***************************************************************************)
(* Model of the ingestion pipeline of cryptoData: the two variants of the  *)
(* extractor, src/deribit.py ("deribit") and                                *)
(* src/extract_crypto_data_parallel.py ("parallel").                        *)
(*                                                                         *)
(* Times are milliseconds.  A Python None / SQL NULL is Null.               *)
(***************************************************************************)
EXTENDS Integers, Sequences, FiniteSets, TLC

VARIABLES
    variant,        \* which of the two programs runs
    units,          \* the units of the venue, in the order process_exchange
                    \* visits them
    stream_type,    \* instrument_type of the stream whose table is modelled
    rows,           \* the stream's table: the set of its stored rows
    pre_rows,       \* the table before the last insert_comprehensive_data
    call,           \* the arguments and result of the last call
    calls,          \* number of calls made so far
    now,            \* datetime.now()
    runs,           \* number of runs of main started so far
    pc,             \* where the run is: "idle" (no process), "unit" (head of
                    \* the unit loop of process_exchange), "fetch" (head of
                    \* the fetch loop), "batch" (a batch was inserted), "done"
                    \* (fetch_all_public_data is about to return)
    unit,           \* position of process_exchange in the order of its units
    tables,         \* the stored rows of every stream
    checkpoint,     \* the checkpoint dict of the running process
    disk,           \* the checkpoint file
    loop,           \* the locals of fetch_all_public_data
    sleep,          \* the last time.sleep of the fetch loop, in multiples of
                    \* rate_limit_seconds
    loaded,         \* history: completed_instruments as the run loaded it
    resolved,       \* history: what the unit's first `since` was resolved from
    stored_at_start,\* history: the timestamps of every stream at run start
    loop_batches,   \* history: last timestamps of the batches this loop persisted
    failed,         \* history: the cursor of a batch whose insert reported 0 rows
    horizon_seen,   \* history: streams a run observed at the horizon
    fetched,        \* history: units fetch_all_public_data was called for in this run
    file,           \* the state of the checkpoint file: "absent", "whole", or
                    \* "partial" (opened for writing and not written to its end)
    retries,        \* history: the failed candle fetches since the last one
                    \* that returned
    save,           \* history: the document the file held before the last
                    \* save_checkpoint and the document that call wrote
    listing,        \* the arguments and result of the last get_listing_timestamp
                    \* followed on its own
    startup,        \* history: the fatal condition a run met at startup and
                    \* the number of that run
    instances,      \* two instances of extract_crypto_data_parallel.py that
                    \* run side by side, and the checkpoint files they write
    visit,          \* two listings of a venue's markets, its timeframes, and
                    \* the order in which a run over each visits the units
    capture,        \* the fetches fetch_all_public_data issues for one unit,
                    \* followed sub-fetch by sub-fetch
    venues          \* main's loop over SELECTED_EXCHANGES and process_exchange
                    \* for each venue, followed with one unit a venue

upsertVars == <<stream_type, rows, pre_rows, call, calls>>

pipelineVars ==
    <<now, runs, pc, unit, tables, checkpoint, disk, loop, sleep, loaded, resolved,
      stored_at_start, loop_batches, failed, horizon_seen, fetched, file, retries>>

configVars == <<variant, units>>

probeVars == <<save, listing, startup, instances, visit, capture, venues>>

vars == <<configVars, upsertVars, pipelineVars, probeVars>>

\* Python None and SQL NULL.
Null == -1

\* The two variants of the program.
Variants == {"deribit", "parallel"}

\* market_type as process_exchange passes it, and "option", the spelling
\* insert_comprehensive_data of deribit.py tests for.
InstrumentTypes == {"spot", "futures", "options", "option"}

\* deribit.py:310, 607  instrument_type in ['future','futures','swap','perpetual']
FuturesLike == {"future", "futures", "swap", "perpetual"}

------------------------------------------------------------------------------
(***************************************************************************)
(* Time conversions.                                                        *)
(***************************************************************************)

\* datetime.fromtimestamp(ms / 1000) bound to a DATETIME column (no
\* fractional digits): MySQL rounds the fractional second.  The value is kept
\* in milliseconds, as last_timestamp.timestamp() * 1000 reads it back.
MsPerSecond == 1000

ToDatetimeColumn(ms) == ((ms + (MsPerSecond \div 2)) \div MsPerSecond) * MsPerSecond

\* The storage key of a candle timestamp: DATETIME in deribit.py (line 186),
\* BIGINT milliseconds in the parallel variant (line 240).
StorageKey(v, ms) == IF v = "deribit" THEN ToDatetimeColumn(ms) ELSE ms

------------------------------------------------------------------------------
(***************************************************************************)
(* Auxiliary snapshot dictionaries.  A dictionary is the sequence of its    *)
(* <<key, value>> items in insertion order.                                 *)
(***************************************************************************)

DictKeys(d) == {d[i][1] : i \in 1..Len(d)}

\* d.get(k): <<value>> when k is a key, <<>> (None) otherwise.
DictGet(d, k) ==
    IF k \in DictKeys(d)
    THEN LET i == CHOOSE j \in 1..Len(d) : d[j][1] = k IN <<d[i][2]>>
    ELSE <<>>

SetMax(S) == CHOOSE x \in S : \A y \in S : y <= x

\* deribit.py:302-305 (ticker), 312-318 (funding), 347-349 (order book):
\* the entry for the candle's own timestamp, else the last captured one;
\* <<>> when the dictionary is empty.
LookupLatest(d, ts) ==
    IF Len(d) = 0 THEN <<>>
    ELSE IF DictGet(d, ts) # <<>> THEN DictGet(d, ts)
    ELSE <<d[Len(d)][2]>>

\* extract_crypto_data_parallel.py:355-358: the entry for the candle's own
\* timestamp, else the entry with the greatest key <= the timestamp
\* (d.get(None) is None when there is no such key).
LookupNearestPrior(d, ts) ==
    IF DictGet(d, ts) # <<>> THEN DictGet(d, ts)
    ELSE IF Len(d) = 0 THEN <<>>
    ELSE LET prior == {k \in DictKeys(d) : k <= ts}
         IN  IF prior = {} THEN <<>> ELSE DictGet(d, SetMax(prior))

\* The fields read from a looked-up ticker ([bid, last]); all None when no
\* ticker was found.
TickerOf(x) ==
    IF x = <<>>
    THEN [bid |-> Null, last |-> Null, found |-> FALSE]
    ELSE [bid |-> x[1].bid, last |-> x[1].last, found |-> TRUE]

\* The value read from a looked-up funding dictionary.
ScalarOf(x) == IF x = <<>> THEN Null ELSE x[1]

\* ob['bids'][0][0] of a looked-up order book (a sequence of <<price, size>>
\* bids), None when there is no book or it has no bid.
BestBidOf(x) == IF x = <<>> \/ Len(x[1]) = 0 THEN Null ELSE x[1][1][1]

------------------------------------------------------------------------------
(***************************************************************************)
(* insert_comprehensive_data.                                               *)
(*                                                                         *)
(* A candle is [ts, open, high, low, close, volume, extra]; `extra` is      *)
(* candle[6] (quote_volume in deribit.py, trade_count in the parallel       *)
(* variant), and a field the venue left out is Null.                        *)
(* A stored row is [ts, open, high, low, close, volume, extra, bid, last,   *)
(* best_bid, funding_rate, strike].  `bid` stands for the ticker columns    *)
(* that are copied from the ticker, `last` for last_price / ticker_last,    *)
(* `best_bid` for the order-book columns, `funding_rate` for funding_rate   *)
(* and open_interest, `strike` for the option columns.                      *)
(***************************************************************************)

\* deribit.py:294-296: a candle with an essential field missing is skipped.
\* The parallel variant (lines 361-366) skips none.
CandleSkipped(v, candle) ==
    /\ v = "deribit"
    /\ (candle.open = Null \/ candle.high = Null \/ candle.low = Null \/ candle.close = Null)

\* deribit.py:286-373: the VALUES tuple built from one candle that is not
\* skipped.
CandleRowDeribit(candle, aux, instrument_type, market_info) ==
    LET ticker  == TickerOf(LookupLatest(aux.ticker_data, candle.ts))
        funding == IF instrument_type \in FuturesLike
                   THEN ScalarOf(LookupLatest(aux.funding_data, candle.ts))
                   ELSE Null
        ob      == LookupLatest(aux.orderbook_data, candle.ts)
    IN  [ts           |-> ToDatetimeColumn(candle.ts),
         open         |-> candle.open,
         high         |-> candle.high,
         low          |-> candle.low,
         close        |-> candle.close,
         volume       |-> IF candle.volume = Null THEN 0 ELSE candle.volume,
         extra        |-> candle.extra,
         bid          |-> IF ticker.found THEN ticker.bid ELSE Null,
         last         |-> IF ticker.found /\ ticker.last # Null THEN ticker.last ELSE candle.close,
         best_bid     |-> BestBidOf(ob),
         funding_rate |-> funding,
         strike       |-> IF instrument_type = "option" THEN market_info.strike ELSE Null]

\* extract_crypto_data_parallel.py:351-398: the VALUES tuple built from one
\* candle; no candle is skipped.
CandleRowParallel(candle, aux, instrument_type, market_info) ==
    LET ticker  == TickerOf(LookupNearestPrior(aux.ticker_data, candle.ts))
        funding == ScalarOf(LookupNearestPrior(aux.funding_data, candle.ts))
        ob      == LookupNearestPrior(aux.orderbook_data, candle.ts)
    IN  [ts           |-> candle.ts,
         open         |-> candle.open,
         high         |-> candle.high,
         low          |-> candle.low,
         close        |-> candle.close,
         volume       |-> candle.volume,
         extra        |-> candle.extra,
         bid          |-> ticker.bid,
         last         |-> ticker.last,
         best_bid     |-> BestBidOf(ob),
         \* funding_rate = funding if funding else None  (0 is falsy)
         funding_rate |-> IF funding # Null /\ funding # 0 THEN funding ELSE Null,
         strike       |-> market_info.strike]

CandleRow(v, candle, aux, instrument_type, market_info) ==
    IF v = "deribit"
    THEN CandleRowDeribit(candle, aux, instrument_type, market_info)
    ELSE CandleRowParallel(candle, aux, instrument_type, market_info)

\* SQL COALESCE(VALUES(col), col).
Coalesce(new, old) == IF new # Null THEN new ELSE old

\* deribit.py:383-403  ON DUPLICATE KEY UPDATE: OHLCV overwritten, the ticker,
\* futures and order-book columns COALESCEd, the option columns not listed
\* (left as stored).
OnDuplicateKeyUpdateDeribit(old, new) ==
    [ts           |-> old.ts,
     open         |-> new.open,
     high         |-> new.high,
     low          |-> new.low,
     close        |-> new.close,
     volume       |-> new.volume,
     extra        |-> Coalesce(new.extra, old.extra),
     bid          |-> Coalesce(new.bid, old.bid),
     last         |-> Coalesce(new.last, old.last),
     best_bid     |-> Coalesce(new.best_bid, old.best_bid),
     funding_rate |-> Coalesce(new.funding_rate, old.funding_rate),
     strike       |-> old.strike]

\* extract_crypto_data_parallel.py:415-444  ON DUPLICATE KEY UPDATE: every
\* column is set to VALUES(column).
OnDuplicateKeyUpdateParallel(old, new) ==
    [ts           |-> old.ts,
     open         |-> new.open,
     high         |-> new.high,
     low          |-> new.low,
     close        |-> new.close,
     volume       |-> new.volume,
     extra        |-> new.extra,
     bid          |-> new.bid,
     last         |-> new.last,
     best_bid     |-> new.best_bid,
     funding_rate |-> new.funding_rate,
     strike       |-> new.strike]

OnDuplicateKeyUpdate(v, old, new) ==
    IF v = "deribit"
    THEN OnDuplicateKeyUpdateDeribit(old, new)
    ELSE OnDuplicateKeyUpdateParallel(old, new)

\* A plain INSERT on a table without a unique key on the timestamp.
InsertWithoutKey(v, tbl, new) == tbl \cup {new}

\* INSERT ... ON DUPLICATE KEY UPDATE against the unique key on timestamp
\* (deribit.py:219 UNIQUE KEY unique_timestamp, parallel:240 PRIMARY KEY).
\* A table is the set of its rows.
ExecuteUpsert(v, tbl, new) ==
    IF \E r \in tbl : r.ts = new.ts
    THEN LET old == CHOOSE r \in tbl : r.ts = new.ts
         IN  (tbl \ {old}) \cup {OnDuplicateKeyUpdate(v, old, new)}
    ELSE tbl \cup {new}

\* The for-loop of insert_comprehensive_data over the candles from position i
\* on (deribit.py:284-417, parallel:351-455).  `fail` names the storage
\* errors of this call: fail.exec is the set of batch positions whose
\* cursor.execute raises a mysql Error, fail.commit says that commit raises.
\* The result is [rows, inserted, error]: deribit.py catches the error of one
\* candle and continues (lines 415-417); in the parallel variant it leaves
\* the loop (line 460).
RECURSIVE InsertLoop(_, _, _, _, _, _, _, _)
InsertLoop(v, tbl, ohlcv_data, i, aux, instrument_type, market_info, fail) ==
    IF i > Len(ohlcv_data)
    THEN [rows |-> tbl, inserted |-> 0, error |-> FALSE]
    ELSE IF CandleSkipped(v, ohlcv_data[i])
    THEN InsertLoop(v, tbl, ohlcv_data, i + 1, aux, instrument_type, market_info, fail)
    ELSE IF i \in fail.exec
    THEN IF v = "deribit"
         THEN InsertLoop(v, tbl, ohlcv_data, i + 1, aux, instrument_type, market_info, fail)
         ELSE [rows |-> tbl, inserted |-> 0, error |-> TRUE]
    ELSE LET new == CandleRow(v, ohlcv_data[i], aux, instrument_type, market_info)
         IN  [InsertLoop(v, ExecuteUpsert(v, tbl, new), ohlcv_data, i + 1,
                         aux, instrument_type, market_info, fail)
                 EXCEPT !.inserted = @ + 1]

\* insert_comprehensive_data (deribit.py:274-430, parallel:341-463): the
\* table after the call and the count returned.  A storage error rolls the
\* whole batch back and returns 0.
insert_comprehensive_data(v, tbl, ohlcv_data, aux, instrument_type, market_info, fail) ==
    IF Len(ohlcv_data) = 0
    THEN [rows |-> tbl, inserted |-> 0]
    ELSE LET done == InsertLoop(v, tbl, ohlcv_data, 1, aux, instrument_type, market_info, fail)
         IN  IF done.error \/ fail.commit
             THEN [rows |-> tbl, inserted |-> 0]
             ELSE [rows |-> done.rows, inserted |-> done.inserted]

------------------------------------------------------------------------------
(***************************************************************************)
(* Time of day, timeframes and the horizon.                                 *)
(*                                                                         *)
(* Times of the pipeline are milliseconds since the model epoch, local      *)
(* midnight two days before the cutoff date of deribit.py (TLC's integers   *)
(* are 32 bits wide and do not hold milliseconds since 1970).               *)
(***************************************************************************)

HourMs == 60 * 60 * 1000

DayMs == 24 * HourMs

\* datetime.date() of a time.
DateOf(ms) == ms \div DayMs

\* deribit.py:505, 535, 912  cutoff_date = datetime(2025, 12, 28).date(),
\* in days since the model epoch.
CutoffDate == 2

\* deribit.py:685  cutoff_timestamp = datetime(2025, 12, 28, 23, 59, 59).
CutoffTimestamp == CutoffDate * DayMs + (23 * 60 * 60 + 59 * 60 + 59) * 1000

\* get_timeframe_duration_ms (deribit.py:752-772, parallel:192-212): the
\* table is the same, the default for an unknown label is 1h in deribit.py
\* and 1m in the parallel variant.
KnownTimeframes ==
    {"1s", "1m", "3m", "5m", "15m", "30m", "1h", "2h", "4h", "6h", "8h", "12h",
     "1d", "3d", "1w", "1M"}

get_timeframe_duration_ms(v, timeframe) ==
    CASE timeframe = "1s"  -> 1000
      [] timeframe = "1m"  -> 60 * 1000
      [] timeframe = "3m"  -> 3 * 60 * 1000
      [] timeframe = "5m"  -> 5 * 60 * 1000
      [] timeframe = "15m" -> 15 * 60 * 1000
      [] timeframe = "30m" -> 30 * 60 * 1000
      [] timeframe = "1h"  -> 60 * 60 * 1000
      [] timeframe = "2h"  -> 2 * 60 * 60 * 1000
      [] timeframe = "4h"  -> 4 * 60 * 60 * 1000
      [] timeframe = "6h"  -> 6 * 60 * 60 * 1000
      [] timeframe = "8h"  -> 8 * 60 * 60 * 1000
      [] timeframe = "12h" -> 12 * 60 * 60 * 1000
      [] timeframe = "1d"  -> 24 * 60 * 60 * 1000
      [] timeframe = "3d"  -> 3 * 24 * 60 * 60 * 1000
      [] timeframe = "1w"  -> 7 * 24 * 60 * 60 * 1000
      [] timeframe = "1M"  -> 30 * 24 * 60 * 60 * 1000
      [] OTHER -> IF v = "deribit" THEN 60 * 60 * 1000 ELSE 60 * 1000

\* A stop instant that no candle of the venue reaches.
HorizonPastEveryCandle(v, clock) == clock + DayMs

\* The instant at which the fetch loop stops: the fixed cutoff in deribit.py
\* (line 685), the current time in the parallel variant (line 609).
Horizon(v, clock) == IF v = "deribit" THEN CutoffTimestamp ELSE clock

------------------------------------------------------------------------------
(***************************************************************************)
(* The venue and its units.  One venue with one spot instrument and two     *)
(* timeframes: process_exchange visits the timeframes in sorted order       *)
(* ('1d' before '8h').  A second, synthetic venue configuration has one     *)
(* hourly unit whose source answers every fetch with three candles.         *)
(***************************************************************************)

ExchangeId == "deribit"

\* instrument_key = f"{market_type}_{symbol}_{timeframe}", in visiting order.
UnitOrder == <<"spot_BTC_1d", "spot_BTC_8h">>

\* The one unit of the synthetic configuration.
SyntheticOrder == <<"spot_SYN_1h">>

UnitKeys ==
    {UnitOrder[i] : i \in 1..Len(UnitOrder)}
        \cup {SyntheticOrder[i] : i \in 1..Len(SyntheticOrder)}

UnitTimeframe(key) ==
    CASE key = "spot_BTC_1d" -> "1d"
      [] key = "spot_BTC_8h" -> "8h"
      [] OTHER -> "1h"

UnitType(key) == "spot"

\* The candle times the venue holds for a unit: daily candles of 27, 28 and
\* 29 December, and three 8h candles (27 December 16:00, 28 December 00:00,
\* 29 December 00:00; the venue has none for the periods without trades).
\* The synthetic unit has six hourly candles: three from the model epoch on
\* and the three hours up to 29 December 00:00.
VenueSeries(key) ==
    CASE key = "spot_BTC_1d" -> {DayMs, 2 * DayMs, 3 * DayMs}
      [] key = "spot_BTC_8h" -> {5 * 8 * HourMs, 6 * 8 * HourMs, 9 * 8 * HourMs}
      [] OTHER -> {0, HourMs, 2 * HourMs, 70 * HourMs, 71 * HourMs, 72 * HourMs}

\* market_info['created']: the time of the unit's first candle.
UnitCreated(key) ==
    CASE key = "spot_BTC_1d" -> DayMs
      [] key = "spot_BTC_8h" -> 5 * 8 * HourMs
      [] OTHER -> 0

\* The market_info of a unit, as far as get_listing_timestamp reads it.
UnitMarketInfo(key) == [created |-> UnitCreated(key)]

\* The times at which a run may start: 27 December 12:00, when the venue
\* has the first daily candle only, and 29 December 00:00, when it has every
\* candle of both series.
RunTimes == {DayMs + 12 * HourMs, 3 * DayMs}

\* optimized_limit = min(limit, 2000) (deribit.py:633, parallel:558), scaled
\* to the model's series.
BatchLimit == 2

RECURSIVE SortedSeq(_)
\* The times of a set in increasing order.
SortedSeq(S) ==
    IF S = {} THEN <<>>
    ELSE LET m == CHOOSE x \in S : \A y \in S : x <= y
         IN  <<m>> \o SortedSeq(S \ {m})

\* exchange.fetch_ohlcv(symbol, timeframe, since, limit): the first `limit`
\* candles at or after `since` that exist at time `clock`.
fetch_ohlcv(key, since, limit, clock) ==
    LET times == SortedSeq({t \in VenueSeries(key) : t >= since /\ t <= clock})
        n     == IF Len(times) < limit THEN Len(times) ELSE limit
    IN  [i \in 1..n |-> [ts |-> times[i], open |-> 1, high |-> 1, low |-> 1,
                          close |-> 1, volume |-> 1, extra |-> Null]]

------------------------------------------------------------------------------
(***************************************************************************)
(* Storage queries.                                                         *)
(***************************************************************************)

\* table_has_data (deribit.py:446-468, parallel:286-295).
table_has_data(tbl) == tbl # {}

\* get_last_timestamp (deribit.py:259-271, parallel:298-309): MAX(timestamp)
\* as a time, Null for an empty table.
get_last_timestamp(tbl) == IF tbl = {} THEN Null ELSE SetMax({r.ts : r \in tbl})

\* A check_and_clear_if_incomplete that clears a stale table in either
\* variant.
ClearStaleInEitherVariant(v, tbl, clock) ==
    IF tbl # {} /\ DateOf(SetMax({r.ts : r \in tbl})) < DateOf(clock)
    THEN [rows |-> {}, was_cleared |-> TRUE]
    ELSE [rows |-> tbl, was_cleared |-> FALSE]

\* check_and_clear_if_incomplete (deribit.py:471-520, parallel:312-338):
\* [rows, was_cleared].  deribit.py never clears; the parallel variant
\* truncates a table whose last row is dated before today.
check_and_clear_if_incomplete(v, tbl, clock) ==
    IF v = "parallel" /\ table_has_data(tbl) /\ DateOf(get_last_timestamp(tbl)) < DateOf(clock)
    THEN [rows |-> {}, was_cleared |-> TRUE]
    ELSE [rows |-> tbl, was_cleared |-> FALSE]

\* A pre-loop test that finds no table up to date.
TableNeverUpToDate(v, tbl, was_cleared) == FALSE

\* The pre-loop test of process_exchange for "the table is up to date"
\* (deribit.py:909-914: the last row is dated on or after the cutoff date;
\* parallel:798: the table was not cleared and has data).
TableUpToDate(v, tbl, was_cleared) ==
    IF v = "deribit"
    THEN table_has_data(tbl) /\ DateOf(get_last_timestamp(tbl)) >= CutoffDate
    ELSE ~was_cleared /\ table_has_data(tbl)

\* A market_info['created'] that int() does not take.
Unparsable == -2

\* timedelta(days=5*365), in seconds.
FiveYearsSeconds == 5 * 365 * 24 * 60 * 60

\* get_listing_timestamp (deribit.py:433-443, parallel:215-225): int() of
\* market_info['created'] when the entry is there and int() takes it, five
\* years before datetime.now() otherwise.  `ticks` is the number of time
\* units in a second (the pipeline counts milliseconds).  Times count from
\* the model epoch, so that a `created` of 0 stands for a nonzero number of
\* the source and is an entry that is there.
get_listing_timestamp(market_info, clock, ticks) ==
    IF market_info.created # Null /\ market_info.created # Unparsable
    THEN market_info.created
    ELSE clock - FiveYearsSeconds * ticks

\* The `since` of a unit's first fetch (deribit.py:540-576, parallel:470-501).
\* deribit.py takes the later of the checkpoint's and the table's last
\* timestamp; the parallel variant reads the checkpoint's and then uses the
\* table's alone.
ResolveSince(v, timeframe, market_info, checkpoint_timestamp, db_timestamp, clock, ticks) ==
    LET last_timestamp ==
            IF v = "deribit"
            THEN IF checkpoint_timestamp # Null /\ db_timestamp # Null
                 THEN (IF checkpoint_timestamp > db_timestamp
                       THEN checkpoint_timestamp ELSE db_timestamp)
                 ELSE IF checkpoint_timestamp # Null THEN checkpoint_timestamp
                 ELSE db_timestamp
            ELSE db_timestamp
    IN  IF last_timestamp # Null
        THEN last_timestamp
                + (get_timeframe_duration_ms(v, timeframe) \div MsPerSecond) * ticks
        ELSE get_listing_timestamp(market_info, clock, ticks)

------------------------------------------------------------------------------
(***************************************************************************)
(* The checkpoint document.  completed_exchanges and completed_instruments  *)
(* are lists; has_exchange says that checkpoint['exchanges'][exchange_id]   *)
(* exists and has_completed that it has a 'completed_instruments' entry;    *)
(* last_timestamp[key] is the stream's recorded time, Null when absent.     *)
(* start_time and end_time are the instants main stamps the document with,  *)
(* each named by the number of the run that read the clock (no two runs     *)
(* start or end at the same instant), 0 when the entry is absent.  The      *)
(* 'last_updated' entries are left out.                                     *)
(***************************************************************************)

\* load_checkpoint of a missing file (deribit.py:237-246).
EmptyCheckpoint ==
    [completed_exchanges   |-> <<>>,
     has_exchange          |-> FALSE,
     has_completed         |-> FALSE,
     completed_instruments |-> <<>>,
     last_timestamp        |-> [k \in UnitKeys |-> Null],
     start_time            |-> 0,
     end_time              |-> 0]

\* load_checkpoint (deribit.py:237-246, parallel:170-179): the document of
\* the file; {} when there is no file or json.load raises on what it holds.
load_checkpoint(file_state, document) ==
    IF file_state = "whole" THEN document ELSE EmptyCheckpoint

SeqToSet(q) == {q[i] : i \in 1..Len(q)}

\* list.remove(x): the first occurrence is removed.
RECURSIVE RemoveFirst(_, _)
RemoveFirst(q, x) ==
    IF Len(q) = 0 THEN q
    ELSE IF Head(q) = x THEN Tail(q)
    ELSE <<Head(q)>> \o RemoveFirst(Tail(q), x)

\* deribit.py:917-924, parallel:801-808: the stream is added to
\* completed_instruments unless it is already there.
MarkCompletedOnce(ck, key) ==
    [ck EXCEPT !.has_exchange = TRUE,
               !.has_completed = TRUE,
               !.completed_instruments =
                    IF key \in SeqToSet(@) THEN @ ELSE Append(@, key)]

\* deribit.py:935-944, parallel:819-828: after a clear, the stream is taken
\* off completed_instruments and its timestamp entry deleted, both only when
\* the venue has a 'completed_instruments' entry.
UnmarkCleared(ck, key) ==
    IF ck.has_completed
    THEN [ck EXCEPT !.has_exchange = TRUE,
                    !.completed_instruments = RemoveFirst(@, key),
                    !.last_timestamp[key] = Null]
    ELSE [ck EXCEPT !.has_exchange = TRUE]

\* A fetch loop that leaves the checkpoint as it is after a batch.
BatchCheckpointSkipped(ck, key, inserted, last_batch_timestamp) == ck

\* deribit.py:655-675, parallel:579-599: the checkpoint after a batch that
\* returned `inserted` rows and whose last candle is at last_batch_timestamp.
\* The stored time is datetime.fromtimestamp(ms / 1000).isoformat(), which
\* keeps the milliseconds.
BatchCheckpoint(ck, key, inserted, last_batch_timestamp) ==
    IF inserted > 0 /\ last_batch_timestamp # 0
    THEN [ck EXCEPT !.has_exchange = TRUE,
                    !.last_timestamp[key] = last_batch_timestamp]
    ELSE ck

\* A process_exchange that records a unit as completed whatever its fetch
\* loop inserted.
UnitCheckpointWhateverInserted(ck, key, inserted, last_timestamp) ==
    [ck EXCEPT !.has_exchange = TRUE,
               !.has_completed = TRUE,
               !.completed_instruments = Append(@, key)]

\* deribit.py:964-986, parallel:848-870: the checkpoint after
\* fetch_all_public_data returned (inserted, last_timestamp).
UnitCheckpoint(ck, key, inserted, last_timestamp) ==
    IF inserted > 0
    THEN [ck EXCEPT !.has_exchange = TRUE,
                    !.has_completed = TRUE,
                    !.completed_instruments = Append(@, key),
                    !.last_timestamp[key] =
                         IF last_timestamp # Null /\ last_timestamp # 0
                         THEN last_timestamp ELSE @]
    ELSE ck

\* deribit.py:1000-1012, parallel:884-896: the venue is added to
\* completed_exchanges unless it is already there.
ExchangeCheckpoint(ck) ==
    [ck EXCEPT !.has_exchange = TRUE,
               !.completed_exchanges =
                    IF ExchangeId \in SeqToSet(@) THEN @ ELSE Append(@, ExchangeId)]

\* A unit loop that passes over no unit.
NeverCompleted(key, completed_instruments) == FALSE

\* deribit.py:889, parallel:778  `if instrument_key in completed_instruments`.
AlreadyCompleted(key, completed_instruments) == key \in completed_instruments

\* A cursor left on the last candle of the batch.
CursorOnLastCandle(last_batch_timestamp) == last_batch_timestamp

\* A cursor put back to the model epoch after every batch.
CursorRewound(last_batch_timestamp) == 0

\* deribit.py:682, parallel:606  current_since = ohlcv_batch[-1][0] + 1.
NextCursor(last_batch_timestamp) == last_batch_timestamp + 1

\* The sleep before the next fetch, in multiples of rate_limit_seconds
\* (deribit.py:690-726, parallel:612-648).
PacingSleep == 1

BackoffSleep(kind, batch_count) ==
    LET backoff_multiplier == IF 5 * ((batch_count % 5) + 1) < 30
                              THEN 5 * ((batch_count % 5) + 1) ELSE 30
    IN  CASE kind = "RateLimitExceeded" ->
                (IF backoff_multiplier > 10 THEN backoff_multiplier ELSE 10) + 2
          [] kind = "DDoSProtection" -> 20
          [] kind = "rate limit message" -> 10
          [] OTHER -> 2

\* The failures of a candle fetch after which the loop tries again.
RetryKinds == {"RateLimitExceeded", "DDoSProtection", "rate limit message", "other"}

------------------------------------------------------------------------------
(***************************************************************************)
(* SpecUpsert: sequences of calls of insert_comprehensive_data on one       *)
(* stream, with the arguments drawn from small pools.                       *)
(***************************************************************************)

\* Number of calls in a sequence.
MaxUpserts == 2

\* Field values a venue reports.
Values == {1, 2}

\* Candle times: the first two candles of a stream with timeframe '1s'.
FirstTime == MsPerSecond

SecondTime == 2 * MsPerSecond

\* The one time at which the auxiliary snapshot of a call was captured
\* (int(datetime.now().timestamp() * 1000)): between the two candle times.
CaptureTime == MsPerSecond + (MsPerSecond \div 2)

\* Candles: complete with every field v, sparse (no volume, no candle[6]),
\* and one with open missing.
FullCandle(ts, v) ==
    [ts |-> ts, open |-> v, high |-> v, low |-> v, close |-> v, volume |-> v, extra |-> v]

SparseCandle(ts) ==
    [ts |-> ts, open |-> 1, high |-> 1, low |-> 1, close |-> 1, volume |-> Null, extra |-> Null]

NoOpenCandle(ts) ==
    [ts |-> ts, open |-> Null, high |-> 1, low |-> 1, close |-> 1, volume |-> 1, extra |-> 1]

\* The candle of the second time varies from call to call; the candle of the
\* first time is always the same complete one.
CandlePool ==
    {FullCandle(SecondTime, v) : v \in Values}
        \cup {SparseCandle(SecondTime), NoOpenCandle(SecondTime)}

\* Batches as a venue returns them: one candle, or the candle of the first
\* time followed by a complete candle, a sparse candle or a candle without
\* open of the second.
BatchPool ==
    {<<c>> : c \in CandlePool \cup {FullCandle(FirstTime, 1)}}
        \cup {<<FullCandle(FirstTime, 1), c>> :
                  c \in {FullCandle(SecondTime, 1), SparseCandle(SecondTime),
                         NoOpenCandle(SecondTime)}}

\* What the venue and its metadata provide for a call, by level: Null for
\* nothing (no snapshot captured, no strike in market_info), 0 for a ticker
\* with null fields, an order book without bids and a funding rate of None,
\* v for every auxiliary field and the strike equal to v.
AuxLevels == {Null, 0} \cup Values

\* The snapshot dicts captured at time `captured` (deribit.py:582-623,
\* parallel:507-548), each with at most one entry.
AuxAt(level, captured) ==
    IF level = Null
    THEN [ticker_data |-> <<>>, orderbook_data |-> <<>>, funding_data |-> <<>>]
    ELSE IF level = 0
    THEN [ticker_data    |-> << <<captured, [bid |-> Null, last |-> Null]>> >>,
          orderbook_data |-> << <<captured, <<>> >> >>,
          funding_data   |-> << <<captured, Null>> >>]
    ELSE [ticker_data    |-> << <<captured, [bid |-> level, last |-> level]>> >>,
          orderbook_data |-> << <<captured, << <<level, level>> >> >> >>,
          funding_data   |-> << <<captured, level>> >>]

AuxOf(level) == AuxAt(level, CaptureTime)

MarketInfoOf(level) == [strike |-> IF level \in Values THEN level ELSE Null]

\* A call that meets no storage error.
NoFail == [exec |-> {}, commit |-> FALSE]

\* Storage errors of one call: none, the first execute raises, commit raises.
FailPool ==
    {[exec |-> {}, commit |-> FALSE],
     [exec |-> {1}, commit |-> FALSE],
     [exec |-> {}, commit |-> TRUE]}

NoCall == [batch |-> <<>>, level |-> Null, fail |-> [exec |-> {}, commit |-> FALSE], inserted |-> 0]

\* No call of insert_comprehensive_data is being followed.
UpsertAtRest ==
    /\ stream_type = "spot"
    /\ rows = {}
    /\ pre_rows = {}
    /\ call = NoCall
    /\ calls = 0

\* The locals of fetch_all_public_data outside the function; horizon is the
\* instant the last batch was compared with and exit how the loop ended.
\* `written` is history: the timestamps of the rows the loop has written, in
\* the order of the writes.
NoLoop ==
    [current_since |-> 0, total_inserted |-> 0, batch_count |-> 0, level |-> Null,
     captured |-> 0, last |-> Null, inserted |-> 0, horizon |-> Null, exit |-> "none",
     written |-> <<>>]

NoResolved == [key |-> "", checkpoint_timestamp |-> Null, db_timestamp |-> Null, since |-> Null]

NoFailed == [pending |-> FALSE, since |-> 0]

\* No candle fetch has failed since the last one that returned.  Of a run of
\* failed fetches the record keeps the number, the cursor the first was
\* issued with, and the kind and the sleep of the last two.
NoRetries ==
    [count |-> 0, since |-> 0, kind |-> "", sleep |-> 0, prev_kind |-> "", prev_sleep |-> 0]

NoSave == [before |-> EmptyCheckpoint, after |-> EmptyCheckpoint, calls |-> 0]

NoListing == [created |-> Null, clock |-> 0, since |-> Null, returned |-> FALSE]

\* No run has met a fatal condition at startup.
NoStartup == [condition |-> "", run |-> 0]

\* Venues an instance of the parallel variant may be configured with.
ExchangeNames == {"bybit", "okx", "htx"}

\* The values of SELECTED_EXCHANGES: the non-empty lists of venues that name
\* no venue twice.
SelectedLists ==
    {q \in UNION {[1..n -> ExchangeNames] : n \in 1..Cardinality(ExchangeNames)} :
        \A a, b \in 1..Len(q) : a # b => q[a] # q[b]}

\* extract_crypto_data_parallel.py:40-44: the name of the checkpoint file is
\* "_".join(SELECTED_EXCHANGES[:2]) between a fixed prefix and suffix; the
\* joined string is named by the list it joins.
CheckpointFileName(selected) ==
    SubSeq(selected, 1, IF Len(selected) < 2 THEN Len(selected) ELSE 2)

FileNames == {CheckpointFileName(q) : q \in SelectedLists}

\* No instance is configured.  Of each of the two instances the record keeps
\* the list it is configured with, its position in main (0 before the
\* checkpoint is loaded, i in the i-th venue, past the list at the final
\* save and after it), the completed_exchanges of the checkpoint in its
\* memory and, as history, the venues it has recorded as completed; of each
\* checkpoint file the completed_exchanges of its document (none when the
\* file is absent).
NoInstances ==
    [selected |-> << <<>>, <<>> >>,
     pos      |-> <<0, 0>>,
     memory   |-> << {}, {} >>,
     recorded |-> << {}, {} >>,
     files    |-> [f \in FileNames |-> {}]]

\* No listing is being followed.
NoVisit == [first |-> <<>>, second |-> <<>>, timeframes |-> {}, orders |-> <<>>]

\* The auxiliary sub-fetches of fetch_all_public_data, in the order of the
\* code (deribit.py:588-623, parallel:513-547).
SubFetchOrder == <<"ticker", "orderbook", "funding", "open_interest">>

SubFetches == {SubFetchOrder[i] : i \in 1..Len(SubFetchOrder)}

\* fetch_all_public_data has not been entered.  pc is the place in the
\* function: i before the i-th sub-fetch, past them in the fetch loop and
\* one further after it.  outcome[f] is what the venue made of sub-fetch f,
\* issued[f] the number of times it was issued, got[f] whether its dict has
\* an entry; batches counts the candle fetches that returned candles,
\* failed says that the last candle fetch failed, and events is history:
\* the fetches issued, in order.
NoCapture ==
    [pc      |-> 1,
     outcome |-> [f \in SubFetches |-> ""],
     issued  |-> [f \in SubFetches |-> 0],
     got     |-> [f \in SubFetches |-> FALSE],
     batches |-> 0,
     failed  |-> FALSE,
     events  |-> <<>>]

\* SELECTED_EXCHANGES (deribit.py:19, parallel:22): two venues.
SelectedExchanges == <<"bybit", "okx">>

SelectedSet == {SelectedExchanges[i] : i \in 1..Len(SelectedExchanges)}

\* main is at the head of its loop over the venues, before the first.  pc
\* is the place: "process" (main calls process_exchange for the venue at
\* pos), "load_markets", "storage" (the database is about to be opened),
\* "unit" (the venue's unit is about to be processed), "mark" (the unit loop
\* has ended), "final" (main has left the loop) and "exit".  retry_count is
\* the local of process_exchange.  The rest is history: per venue the calls
\* of load_markets and those that failed, what process_exchange returned
\* ("none" before it has, "interrupt" when it was left by one); the venues
\* whose storage was opened and whose unit was entered; the venue an
\* interrupt was raised in, whether a handler absorbed it; and the number
\* of final saves.  completed_exchanges is the list of the checkpoint and
\* completed_instruments the venues whose unit is in their list.
NoVenues ==
    [pc                    |-> "process",
     pos                   |-> 1,
     retry_count           |-> 0,
     calls                 |-> [e \in SelectedSet |-> 0],
     failures              |-> [e \in SelectedSet |-> 0],
     result                |-> [e \in SelectedSet |-> "none"],
     opened                |-> {},
     visited               |-> {},
     completed_exchanges   |-> <<>>,
     completed_instruments |-> {},
     interrupted           |-> "",
     absorbed              |-> FALSE,
     final_saves           |-> 0]

\* Nothing has run yet: empty tables, no checkpoint file.
PipelineAtRest ==
    /\ now = 0
    /\ runs = 0
    /\ pc = "idle"
    /\ unit = 1
    /\ tables = [k \in UnitKeys |-> {}]
    /\ checkpoint = EmptyCheckpoint
    /\ disk = EmptyCheckpoint
    /\ loop = NoLoop
    /\ sleep = 0
    /\ loaded = {}
    /\ resolved = NoResolved
    /\ stored_at_start = [k \in UnitKeys |-> {}]
    /\ loop_batches = <<>>
    /\ failed = NoFailed
    /\ horizon_seen = {}
    /\ fetched = {}
    /\ file = "absent"
    /\ retries = NoRetries

\* No function is being followed on its own.
ProbesAtRest ==
    /\ save = NoSave
    /\ listing = NoListing
    /\ startup = NoStartup
    /\ instances = NoInstances
    /\ visit = NoVisit
    /\ capture = NoCapture
    /\ venues = NoVenues

InitUpsert ==
    /\ PipelineAtRest
    /\ ProbesAtRest
    /\ units = UnitOrder
    /\ variant \in Variants
    \* insert_comprehensive_data of the parallel variant never reads
    \* instrument_type.
    /\ stream_type \in (IF variant = "deribit" THEN InstrumentTypes ELSE {"spot"})
    /\ rows = {}
    /\ pre_rows = {}
    /\ call = NoCall
    /\ calls = 0

\* One call of insert_comprehensive_data on the stream's table.
Upsert(batch, level, fail) ==
    /\ calls < MaxUpserts
    /\ LET r == insert_comprehensive_data(variant, rows, batch, AuxOf(level),
                                          stream_type, MarketInfoOf(level), fail)
       IN  /\ rows' = r.rows
           /\ call' = [batch |-> batch, level |-> level, fail |-> fail, inserted |-> r.inserted]
    /\ pre_rows' = rows
    /\ calls' = calls + 1
    /\ UNCHANGED <<configVars, probeVars, stream_type, pipelineVars>>

NextUpsert == \E batch \in BatchPool, level \in AuxLevels, fail \in FailPool : Upsert(batch, level, fail)

SpecUpsert == InitUpsert /\ [][NextUpsert]_vars

------------------------------------------------------------------------------
(***************************************************************************)
(* Spec: runs of main over the venue.  A run loads the checkpoint file,     *)
(* walks the units of the venue and fetches each unit's candles batch by    *)
(* batch; it may crash anywhere, and the next run starts from the tables    *)
(* and the checkpoint file the crashed one left.  save_checkpoint is taken  *)
(* to succeed, and a candle fetch fails at most once in a row (a further    *)
(* failure changes nothing but the sleep; SpecRetry follows the runs of     *)
(* failures).                                                               *)
(***************************************************************************)

MaxRuns == 2

\* The failed candle fetches in a row that are followed.
MaxConsecutiveFailures == 10

\* What the snapshot sub-fetches of a unit return: every field 1.
SnapshotLevels == {1}

\* Storage errors of the insert of a batch: none, or commit raises.
StorageFailPool == {NoFail, [exec |-> {}, commit |-> TRUE]}

CurrentKey == units[unit]

StoredTimes(tbl) == {r.ts : r \in tbl}

\* main (deribit.py:1025-1075, parallel:909-959) up to the first unit of
\* process_exchange: the checkpoint is loaded and saved; a venue found in
\* completed_exchanges is not processed (deribit.py:781-784) and the run ends.
StartRun(clock) ==
    /\ pc = "idle"
    /\ runs < MaxRuns
    /\ clock >= now
    /\ now' = clock
    /\ runs' = runs + 1
    /\ \E document \in {load_checkpoint(file, disk)} :
          IF ExchangeId \in SeqToSet(document.completed_exchanges)
          THEN /\ checkpoint' = [document EXCEPT !.start_time = runs + 1,
                                                 !.end_time = runs + 1]
               /\ pc' = "idle"
          ELSE /\ checkpoint' = [document EXCEPT !.start_time = runs + 1]
               /\ pc' = "unit"
    /\ loaded' = SeqToSet(load_checkpoint(file, disk).completed_instruments)
    /\ disk' = checkpoint'
    /\ file' = "whole"
    /\ unit' = 1
    /\ stored_at_start' = [k \in UnitKeys |-> StoredTimes(tables[k])]
    /\ loop' = NoLoop
    /\ sleep' = 0
    /\ resolved' = NoResolved
    /\ loop_batches' = <<>>
    /\ failed' = NoFailed
    /\ fetched' = {}
    /\ UNCHANGED <<configVars, upsertVars, probeVars, tables, horizon_seen, retries>>

\* process_exchange, deribit.py:888-890, parallel:777-779: a unit whose key
\* is in completed_instruments is passed over.
SkipCompleted ==
    /\ pc = "unit"
    /\ unit <= Len(units)
    /\ AlreadyCompleted(CurrentKey, loaded)
    /\ unit' = unit + 1
    /\ UNCHANGED <<configVars, upsertVars, probeVars, file, retries, now, runs, pc, tables,
                   checkpoint, disk, loop,
                   sleep, loaded, resolved, stored_at_start, loop_batches, failed,
                   horizon_seen, fetched>>

\* process_exchange, deribit.py:906-931, parallel:795-815: the table is
\* checked (and, in the parallel variant, cleared when stale); a table found
\* up to date has its unit marked complete and passed over.
SkipUpToDate ==
    /\ pc = "unit"
    /\ unit <= Len(units)
    /\ ~AlreadyCompleted(CurrentKey, loaded)
    /\ LET chk == check_and_clear_if_incomplete(variant, tables[CurrentKey], now)
       IN  /\ TableUpToDate(variant, chk.rows, chk.was_cleared)
           /\ tables' = [tables EXCEPT ![CurrentKey] = chk.rows]
    /\ checkpoint' = MarkCompletedOnce(checkpoint, CurrentKey)
    /\ disk' = checkpoint'
    /\ horizon_seen' = horizon_seen \cup {CurrentKey}
    /\ unit' = unit + 1
    /\ UNCHANGED <<configVars, upsertVars, probeVars, file, retries, now, runs, pc, loop,
                   sleep, loaded, resolved,
                   stored_at_start, loop_batches, failed, fetched>>

\* process_exchange, deribit.py:906-957, parallel:795-841, and
\* fetch_all_public_data up to its loop (deribit.py:526-633,
\* parallel:470-558): the table is checked and possibly cleared, a cleared
\* unit is taken off the checkpoint, `since` is resolved and the snapshot
\* captured.
BeginFetch(level) ==
    /\ pc = "unit"
    /\ unit <= Len(units)
    /\ ~AlreadyCompleted(CurrentKey, loaded)
    /\ LET chk == check_and_clear_if_incomplete(variant, tables[CurrentKey], now)
           ck  == IF chk.was_cleared THEN UnmarkCleared(checkpoint, CurrentKey)
                  ELSE checkpoint
           checkpoint_timestamp == ck.last_timestamp[CurrentKey]
           db_timestamp == get_last_timestamp(chk.rows)
           since == ResolveSince(variant, UnitTimeframe(CurrentKey), UnitMarketInfo(CurrentKey),
                                 checkpoint_timestamp, db_timestamp, now, MsPerSecond)
       IN  /\ ~TableUpToDate(variant, chk.rows, chk.was_cleared)
           /\ tables' = [tables EXCEPT ![CurrentKey] = chk.rows]
           /\ checkpoint' = ck
           /\ disk' = IF chk.was_cleared THEN ck ELSE disk
           /\ loop' = [NoLoop EXCEPT !.current_since = since, !.level = level,
                                     !.captured = now]
           /\ resolved' = [key |-> CurrentKey,
                           checkpoint_timestamp |-> checkpoint_timestamp,
                           db_timestamp |-> db_timestamp,
                           since |-> since]
    /\ pc' = "fetch"
    /\ fetched' = fetched \cup {CurrentKey}
    /\ loop_batches' = <<>>
    /\ failed' = NoFailed
    /\ UNCHANGED <<configVars, upsertVars, probeVars, file, retries, now, runs, unit, sleep,
                   loaded,
                   stored_at_start, horizon_seen>>

\* A fetch loop that moves the cursor on when a fetch returns nothing.
FetchBatchMovesOnEmpty(limit, fail, venue_time) ==
    /\ pc = "fetch"
    /\ \E ohlcv_batch \in {fetch_ohlcv(CurrentKey, loop.current_since, limit, venue_time)} :
          IF Len(ohlcv_batch) = 0
          THEN /\ pc' = "done"
               /\ loop' = [loop EXCEPT !.exit = "empty",
                                       !.current_since = NextCursor(@)]
               /\ UNCHANGED <<tables, loop_batches, failed>>
          ELSE \E r \in {insert_comprehensive_data(
                              variant, tables[CurrentKey], ohlcv_batch,
                              AuxAt(loop.level, loop.captured), UnitType(CurrentKey),
                              MarketInfoOf(loop.level), fail)},
                  last \in {ohlcv_batch[Len(ohlcv_batch)].ts} :
                   /\ pc' = "batch"
                   /\ tables' = [tables EXCEPT ![CurrentKey] = r.rows]
                   /\ loop' = [loop EXCEPT !.batch_count = @ + 1,
                                           !.total_inserted = @ + r.inserted,
                                           !.last = last,
                                           !.inserted = r.inserted,
                                           !.written =
                                               IF r.inserted > 0
                                               THEN @ \o [i \in 1..Len(ohlcv_batch) |->
                                                             ohlcv_batch[i].ts]
                                               ELSE @]
                   /\ loop_batches' = IF r.inserted > 0
                                      THEN Append(loop_batches, last)
                                      ELSE loop_batches
                   /\ failed' = IF r.inserted = 0
                                THEN [pending |-> TRUE, since |-> loop.current_since]
                                ELSE NoFailed
    /\ sleep' = 0
    /\ retries' = NoRetries
    /\ UNCHANGED <<configVars, upsertVars, probeVars, file, now, runs, unit, checkpoint,
                   disk, loaded, resolved, stored_at_start, horizon_seen, fetched>>

\* The fetch loop, deribit.py:637-652, parallel:561-576: one batch of at
\* most `limit` candles is fetched (the venue may cap the batch below the
\* requested optimized_limit) from a venue that holds the candles up to
\* venue_time; an empty batch ends the loop, any other is inserted.
FetchBatch(limit, fail, venue_time) ==
    /\ pc = "fetch"
    /\ \E ohlcv_batch \in {fetch_ohlcv(CurrentKey, loop.current_since, limit, venue_time)} :
          IF Len(ohlcv_batch) = 0
          THEN /\ pc' = "done"
               /\ loop' = [loop EXCEPT !.exit = "empty"]
               /\ UNCHANGED <<tables, loop_batches, failed>>
          ELSE \E r \in {insert_comprehensive_data(
                              variant, tables[CurrentKey], ohlcv_batch,
                              AuxAt(loop.level, loop.captured), UnitType(CurrentKey),
                              MarketInfoOf(loop.level), fail)},
                  last \in {ohlcv_batch[Len(ohlcv_batch)].ts} :
                   /\ pc' = "batch"
                   /\ tables' = [tables EXCEPT ![CurrentKey] = r.rows]
                   /\ loop' = [loop EXCEPT !.batch_count = @ + 1,
                                           !.total_inserted = @ + r.inserted,
                                           !.last = last,
                                           !.inserted = r.inserted,
                                           !.written =
                                               IF r.inserted > 0
                                               THEN @ \o [i \in 1..Len(ohlcv_batch) |->
                                                             ohlcv_batch[i].ts]
                                               ELSE @]
                   /\ loop_batches' = IF r.inserted > 0
                                      THEN Append(loop_batches, last)
                                      ELSE loop_batches
                   /\ failed' = IF r.inserted = 0
                                THEN [pending |-> TRUE, since |-> loop.current_since]
                                ELSE NoFailed
    /\ sleep' = 0
    /\ retries' = NoRetries
    /\ UNCHANGED <<configVars, upsertVars, probeVars, file, now, runs, unit, checkpoint,
                   disk, loaded, resolved, stored_at_start, horizon_seen, fetched>>

\* The fetch loop, deribit.py:654-692, parallel:578-614: after a batch that
\* wrote rows the stream's timestamp is put in the checkpoint and the
\* checkpoint saved; the cursor moves past the batch; the loop ends when the
\* batch reached the horizon and sleeps otherwise.
RecordBatch ==
    /\ pc = "batch"
    /\ checkpoint' = BatchCheckpoint(checkpoint, CurrentKey, loop.inserted, loop.last)
    /\ disk' = IF loop.inserted > 0 /\ loop.last # 0 THEN checkpoint' ELSE disk
    /\ IF loop.last >= Horizon(variant, now)
       THEN /\ pc' = "done"
            /\ loop' = [loop EXCEPT !.current_since = NextCursor(loop.last),
                                    !.horizon = Horizon(variant, now),
                                    !.exit = "cutoff"]
            /\ horizon_seen' = IF loop.inserted > 0
                               THEN horizon_seen \cup {CurrentKey}
                               ELSE horizon_seen
            /\ UNCHANGED sleep
       ELSE /\ pc' = "fetch"
            /\ loop' = [loop EXCEPT !.current_since = NextCursor(loop.last),
                                    !.horizon = Horizon(variant, now)]
            /\ sleep' = PacingSleep
            /\ UNCHANGED horizon_seen
    /\ UNCHANGED <<configVars, upsertVars, probeVars, file, retries, now, runs, unit, tables,
                   loaded, resolved,
                   stored_at_start, loop_batches, failed, fetched>>

\* A fetch loop that gives the unit up at a failed candle fetch.
FetchErrorEndsUnit(kind) ==
    /\ pc = "fetch"
    /\ retries.count < MaxConsecutiveFailures
    /\ pc' = "done"
    /\ loop' = [loop EXCEPT !.exit = "abort"]
    /\ sleep' = 0
    /\ retries' = [retries EXCEPT !.count = @ + 1,
                                  !.since = IF retries.count = 0 THEN loop.current_since ELSE @,
                                  !.kind = kind,
                                  !.prev_kind = retries.kind]
    /\ UNCHANGED <<configVars, upsertVars, probeVars, file, now, runs, unit, tables,
                   checkpoint, disk, loaded, resolved, stored_at_start, loop_batches,
                   failed, horizon_seen, fetched>>

\* The fetch loop, deribit.py:694-718, 723-726, parallel:616-640, 645-648:
\* a failed candle fetch after which the loop sleeps and fetches again.
\* The failures in a row that are followed are MaxConsecutiveFailures.
FetchError(kind) ==
    /\ pc = "fetch"
    /\ retries.count < MaxConsecutiveFailures
    /\ sleep' = BackoffSleep(kind, loop.batch_count)
    /\ retries' = [count      |-> retries.count + 1,
                   since      |-> IF retries.count = 0 THEN loop.current_since
                                  ELSE retries.since,
                   kind       |-> kind,
                   sleep      |-> BackoffSleep(kind, loop.batch_count),
                   prev_kind  |-> retries.kind,
                   prev_sleep |-> retries.sleep]
    /\ UNCHANGED <<configVars, upsertVars, probeVars, file, now, runs, pc, unit, tables,
                   checkpoint, disk, loop, loaded, resolved, stored_at_start,
                   loop_batches, failed, horizon_seen, fetched>>

\* The fetch loop, deribit.py:720-722, parallel:642-644: a failure whose
\* message has 'not found' or 'invalid' ends the loop.
FetchNotFound ==
    /\ pc = "fetch"
    /\ pc' = "done"
    /\ loop' = [loop EXCEPT !.exit = "abort"]
    /\ sleep' = 0
    /\ retries' = NoRetries
    /\ UNCHANGED <<configVars, upsertVars, probeVars, file, now, runs, unit, tables,
                   checkpoint, disk, loaded, resolved, stored_at_start, loop_batches,
                   failed, horizon_seen, fetched>>

\* A process_exchange that leaves the unit loop when a unit returns.
FinishUnitEndsExchange ==
    /\ pc = "done"
    /\ pc' = "unit"
    /\ unit' = Len(units) + 1
    /\ loop' = NoLoop
    /\ resolved' = NoResolved
    /\ loop_batches' = <<>>
    /\ failed' = NoFailed
    /\ UNCHANGED <<configVars, upsertVars, probeVars, file, retries, now, runs, tables, sleep,
                   loaded, checkpoint, disk, stored_at_start, horizon_seen, fetched>>

\* fetch_all_public_data returns (deribit.py:734-741, parallel:656-663) and
\* process_exchange records the unit (deribit.py:959-991, parallel:843-875).
FinishUnit ==
    /\ pc = "done"
    /\ LET inserted == loop.total_inserted
           last_timestamp == IF inserted > 0 THEN get_last_timestamp(tables[CurrentKey])
                             ELSE Null
       IN  /\ checkpoint' = UnitCheckpoint(checkpoint, CurrentKey, inserted, last_timestamp)
           /\ disk' = IF inserted > 0 THEN checkpoint' ELSE disk
    /\ pc' = "unit"
    /\ unit' = unit + 1
    /\ loop' = NoLoop
    /\ resolved' = NoResolved
    /\ loop_batches' = <<>>
    /\ failed' = NoFailed
    /\ UNCHANGED <<configVars, upsertVars, probeVars, file, retries, now, runs, tables, sleep,
                   loaded,
                   stored_at_start, horizon_seen, fetched>>

\* process_exchange after its last unit (deribit.py:1000-1016,
\* parallel:884-900) and the end of main (deribit.py:1072-1075): the venue
\* is put in completed_exchanges and the checkpoint saved, then stamped with
\* end_time and saved again.
FinishExchange ==
    /\ pc = "unit"
    /\ unit > Len(units)
    /\ checkpoint' = [ExchangeCheckpoint(checkpoint) EXCEPT !.end_time = runs]
    /\ disk' = checkpoint'
    /\ pc' = "idle"
    /\ unit' = 1
    /\ loaded' = {}
    /\ fetched' = {}
    /\ stored_at_start' = [k \in UnitKeys |-> StoredTimes(tables[k])]
    /\ UNCHANGED <<configVars, upsertVars, probeVars, file, retries, now, runs, tables, loop,
                   sleep, resolved,
                   loop_batches, failed, horizon_seen>>

\* Time passes while the process runs.
Tick(clock) ==
    /\ pc # "idle"
    /\ clock > now
    /\ now' = clock
    /\ UNCHANGED <<configVars, upsertVars, probeVars, file, retries, runs, pc, unit, tables,
                   checkpoint, disk, loop,
                   sleep, loaded, resolved, stored_at_start, loop_batches, failed,
                   horizon_seen, fetched>>

\* The process dies: what is in memory is lost, the tables and the
\* checkpoint file stay.
Crash ==
    /\ pc # "idle"
    /\ pc' = "idle"
    /\ checkpoint' = disk
    /\ unit' = 1
    /\ loop' = NoLoop
    /\ sleep' = 0
    /\ loaded' = {}
    /\ fetched' = {}
    /\ stored_at_start' = [k \in UnitKeys |-> StoredTimes(tables[k])]
    /\ resolved' = NoResolved
    /\ loop_batches' = <<>>
    /\ failed' = NoFailed
    /\ retries' = NoRetries
    /\ UNCHANGED <<configVars, upsertVars, probeVars, file, now, runs, tables, disk,
                   horizon_seen>>

Init ==
    /\ variant \in Variants
    /\ units = UnitOrder
    /\ UpsertAtRest
    /\ PipelineAtRest
    /\ ProbesAtRest

Next ==
    \/ \E clock \in RunTimes : StartRun(clock)
    \/ SkipCompleted
    \/ SkipUpToDate
    \/ \E level \in SnapshotLevels : BeginFetch(level)
    \/ \E limit \in 1..BatchLimit, fail \in StorageFailPool : FetchBatch(limit, fail, now)
    \/ RecordBatch
    \/ \E kind \in RetryKinds : retries.count = 0 /\ FetchError(kind)
    \/ FetchNotFound
    \/ FinishUnit
    \/ FinishExchange
    \/ \E clock \in RunTimes : Tick(clock)
    \/ Crash

Spec == Init /\ [][Next]_vars

------------------------------------------------------------------------------
(***************************************************************************)
(* SpecIdeal: the runs of Spec against a synthetic source: the venue        *)
(* returns the candles of its series whatever the time, so that no fetch    *)
(* is empty before a candle at or after the horizon of either variant has   *)
(* been returned (the last candle of each series is at the cutoff of        *)
(* deribit.py and at the last time the clock of a run shows); neither the   *)
(* venue nor the storage fails.  The process may still crash.  A fetch loop *)
(* that can take a step eventually takes one or the process crashes.        *)
(***************************************************************************)

\* The time of the last candle of either series, 29 December 00:00.
LastCandleTime == 3 * DayMs

\* One fetch and insert of the loop.
FetchStep == \E limit \in 1..BatchLimit : FetchBatch(limit, NoFail, LastCandleTime)

\* One step of the fetch loop.
LoopStep == FetchStep \/ RecordBatch

NextIdeal ==
    \/ \E clock \in RunTimes : StartRun(clock)
    \/ SkipCompleted
    \/ SkipUpToDate
    \/ \E level \in SnapshotLevels : BeginFetch(level)
    \/ FetchStep
    \/ RecordBatch
    \/ FinishUnit
    \/ FinishExchange
    \/ \E clock \in RunTimes : Tick(clock)
    \/ Crash

SpecIdeal == Init /\ [][NextIdeal]_vars /\ WF_vars(LoopStep)

------------------------------------------------------------------------------
(***************************************************************************)
(* SpecTransient: the runs of Spec against a venue whose data reaches the   *)
(* horizon (the synthetic source of SpecIdeal), where every failure is one  *)
(* that passes: a candle fetch may fail with an error the loop retries, the *)
(* insert of a batch may meet a storage error, and the process may crash.   *)
(* No fetch fails with 'not found' or 'invalid'.                            *)
(***************************************************************************)

NextTransient ==
    \/ \E clock \in RunTimes : StartRun(clock)
    \/ SkipCompleted
    \/ SkipUpToDate
    \/ \E level \in SnapshotLevels : BeginFetch(level)
    \/ \E limit \in 1..BatchLimit, fail \in StorageFailPool :
          FetchBatch(limit, fail, LastCandleTime)
    \/ RecordBatch
    \/ \E kind \in RetryKinds : retries.count = 0 /\ FetchError(kind)
    \/ FinishUnit
    \/ FinishExchange
    \/ \E clock \in RunTimes : Tick(clock)
    \/ Crash

SpecTransient == Init /\ [][NextTransient]_vars

------------------------------------------------------------------------------
(***************************************************************************)
(* SpecScenario: the runs over the synthetic configuration.  Its one unit   *)
(* has no rows and no checkpoint entry and is listed at time 0; its source  *)
(* holds six hourly candles and answers every fetch with the next three,    *)
(* the last of the second three being at or after the horizon of either     *)
(* variant.  Nothing fails and the process does not crash.                  *)
(***************************************************************************)

\* The `limit` the source of the synthetic unit serves (deribit.py:633,
\* parallel:558).
ScenarioLimit == 3

InitScenario ==
    /\ variant \in Variants
    /\ units = SyntheticOrder
    /\ UpsertAtRest
    /\ PipelineAtRest
    /\ ProbesAtRest

NextScenario ==
    \/ \E clock \in RunTimes : StartRun(clock)
    \/ \E level \in AuxLevels : BeginFetch(level)
    \/ FetchBatch(ScenarioLimit, NoFail, LastCandleTime)
    \/ RecordBatch
    \/ FinishUnit
    \/ FinishExchange
    \/ \E clock \in RunTimes : Tick(clock)

SpecScenario == InitScenario /\ [][NextScenario]_vars

------------------------------------------------------------------------------
(***************************************************************************)
(* SpecListing: the first `since` of a stream that has neither rows nor a   *)
(* checkpoint entry, followed on its own.  Times are in seconds here (five  *)
(* years of milliseconds are past the integers of the model), counted from  *)
(* five years before the model's first clock.  The venue's market_info may  *)
(* lack 'created', hold one that int() rejects, or hold a time before or    *)
(* after the clock.                                                         *)
(***************************************************************************)

DaySeconds == 24 * 60 * 60

\* datetime.now() at the call.
ListingClocks == {FiveYearsSeconds + d * DaySeconds : d \in 1..5}

\* market_info['created'] as the venue reports it.
CreatedPool ==
    {Null, Unparsable}
        \cup {FiveYearsSeconds + d * DaySeconds - DaySeconds \div 2 : d \in 0..7}

InitListing ==
    /\ variant \in Variants
    /\ units = UnitOrder
    /\ UpsertAtRest
    /\ PipelineAtRest
    /\ save = NoSave
    /\ startup = NoStartup
    /\ instances = NoInstances
    /\ visit = NoVisit
    /\ capture = NoCapture
    /\ venues = NoVenues
    /\ listing \in [created : CreatedPool, clock : ListingClocks,
                     since : {Null}, returned : {FALSE}]

\* fetch_all_public_data resolves `since` for a stream without timestamps
\* (deribit.py:540-576, parallel:470-501).
ResolveListing ==
    /\ ~listing.returned
    /\ listing' = [listing EXCEPT
                      !.since = ResolveSince(variant, "1h", [created |-> listing.created],
                                             Null, Null, listing.clock, 1),
                      !.returned = TRUE]
    /\ UNCHANGED <<configVars, upsertVars, pipelineVars, save, startup, instances, visit, capture, venues>>

NextListing == ResolveListing

SpecListing == InitListing /\ [][NextListing]_vars

------------------------------------------------------------------------------
(***************************************************************************)
(* SpecStartup: runs that may meet a fatal condition at startup: the        *)
(* credentials file cannot be read, or the storage server cannot be         *)
(* reached.  The other runs are those of Spec without failing fetches and   *)
(* storage errors.                                                          *)
(***************************************************************************)

StartupConditions == {"credentials", "storage"}

\* main, deribit.py:1035-1041, parallel:919-925: read_credentials raises and
\* main returns before the checkpoint is loaded.
StartRunNoCredentials(clock) ==
    /\ pc = "idle"
    /\ runs < MaxRuns
    /\ clock >= now
    /\ now' = clock
    /\ runs' = runs + 1
    /\ startup' = [condition |-> "credentials", run |-> runs + 1]
    /\ UNCHANGED <<configVars, upsertVars, save, listing, instances, visit, capture, venues, pc, unit, tables,
                   checkpoint,
                   disk, loop, sleep, loaded, resolved, stored_at_start, loop_batches,
                   failed, horizon_seen, fetched, file, retries>>

\* main, deribit.py:1043-1075, parallel:927-959, with the storage server
\* out of reach: the checkpoint is loaded, stamped with start_time and
\* saved; process_exchange returns at once for a venue in
\* completed_exchanges and otherwise fails to connect
\* (create_database_if_not_exists, get_database_connection,
\* deribit.py:832-837), which its handler turns into a False result
\* (deribit.py:1018-1022) before any unit; main stamps end_time and saves.
StartRunNoStorage(clock) ==
    /\ pc = "idle"
    /\ runs < MaxRuns
    /\ clock >= now
    /\ now' = clock
    /\ runs' = runs + 1
    /\ startup' = [condition |-> "storage", run |-> runs + 1]
    /\ checkpoint' = [load_checkpoint(file, disk) EXCEPT !.start_time = runs + 1,
                                                         !.end_time = runs + 1]
    /\ disk' = checkpoint'
    /\ file' = "whole"
    /\ unit' = 1
    /\ loaded' = {}
    /\ fetched' = {}
    /\ stored_at_start' = [k \in UnitKeys |-> StoredTimes(tables[k])]
    /\ loop' = NoLoop
    /\ sleep' = 0
    /\ resolved' = NoResolved
    /\ loop_batches' = <<>>
    /\ failed' = NoFailed
    /\ UNCHANGED <<configVars, upsertVars, save, listing, instances, visit, capture, venues, pc, tables,
                   horizon_seen,
                   retries>>

NextStartup ==
    \/ \E clock \in RunTimes : StartRunNoCredentials(clock)
    \/ \E clock \in RunTimes : StartRunNoStorage(clock)
    \/ \E clock \in RunTimes : StartRun(clock)
    \/ SkipCompleted
    \/ SkipUpToDate
    \/ \E level \in SnapshotLevels : BeginFetch(level)
    \/ \E limit \in 1..BatchLimit : FetchBatch(limit, NoFail, now)
    \/ RecordBatch
    \/ FinishUnit
    \/ FinishExchange
    \/ Crash

SpecStartup == Init /\ [][NextStartup]_vars

------------------------------------------------------------------------------
(***************************************************************************)
(* SpecInstances: two instances of extract_crypto_data_parallel.py with     *)
(* different SELECTED_EXCHANGES lists run side by side, each through main.  *)
(* Of the checkpoint only completed_exchanges is followed, and of the saves *)
(* of a venue only the last, which writes the document of the others with   *)
(* the venue added.                                                         *)
(***************************************************************************)

InitInstances ==
    /\ variant = "parallel"
    /\ units = UnitOrder
    /\ UpsertAtRest
    /\ PipelineAtRest
    /\ save = NoSave
    /\ listing = NoListing
    /\ startup = NoStartup
    /\ visit = NoVisit
    /\ capture = NoCapture
    /\ venues = NoVenues
    /\ \E first, second \in SelectedLists :
          /\ first # second
          /\ instances = [NoInstances EXCEPT !.selected = <<first, second>>]

\* main, parallel:927-935: the instance loads its checkpoint file, stamps
\* the document and saves it.
InstanceStart(i) ==
    /\ instances.pos[i] = 0
    /\ \E f \in {CheckpointFileName(instances.selected[i])} :
          instances' = [instances EXCEPT !.memory[i] = instances.files[f],
                                         !.pos[i] = 1,
                                         !.files[f] = instances.files[f]]
    /\ UNCHANGED <<configVars, upsertVars, pipelineVars, save, listing, startup, visit, capture, venues>>

\* process_exchange, parallel:681-683 and 884-887: a venue found in
\* completed_exchanges is passed over; any other is processed, added to
\* completed_exchanges and the checkpoint saved.
InstanceExchange(i) ==
    /\ instances.pos[i] \in 1..Len(instances.selected[i])
    /\ \E f \in {CheckpointFileName(instances.selected[i])},
          exchange_id \in {instances.selected[i][instances.pos[i]]} :
          IF exchange_id \in instances.memory[i]
          THEN instances' = [instances EXCEPT !.pos[i] = @ + 1]
          ELSE instances' =
                  [instances EXCEPT !.pos[i] = @ + 1,
                                    !.memory[i] = @ \cup {exchange_id},
                                    !.recorded[i] = @ \cup {exchange_id},
                                    !.files[f] = instances.memory[i] \cup {exchange_id}]
    /\ UNCHANGED <<configVars, upsertVars, pipelineVars, save, listing, startup, visit, capture, venues>>

\* main, parallel:955-958: the document is stamped with end_time and saved.
InstanceEnd(i) ==
    /\ instances.pos[i] = Len(instances.selected[i]) + 1
    /\ \E f \in {CheckpointFileName(instances.selected[i])} :
          instances' = [instances EXCEPT !.pos[i] = @ + 1,
                                         !.files[f] = instances.memory[i]]
    /\ UNCHANGED <<configVars, upsertVars, pipelineVars, save, listing, startup, visit, capture, venues>>

NextInstances ==
    \/ \E i \in 1..2 : InstanceStart(i)
    \/ \E i \in 1..2 : InstanceExchange(i)
    \/ \E i \in 1..2 : InstanceEnd(i)

SpecInstances == InitInstances /\ [][NextInstances]_vars

------------------------------------------------------------------------------
(***************************************************************************)
(* SpecVisit: the order in which process_exchange visits the units of a     *)
(* venue, for two runs that load the same markets listed in any two orders  *)
(* (exchange.load_markets() returns a dict, which is iterated in the order  *)
(* of its insertions) with the same timeframes.  An instrument key is the   *)
(* triple its f-string joins.                                               *)
(***************************************************************************)

\* The markets of the venue: [symbol, type].
Markets ==
    {[symbol |-> "BTC/USDT", type |-> "spot"],
     [symbol |-> "ETH/USDT", type |-> "spot"],
     [symbol |-> "BTC-PERPETUAL", type |-> "swap"]}

\* The listings of a set of markets: its members in any order.
ListingsOf(S) ==
    {q \in [1..Cardinality(S) -> S] : \A a, b \in 1..Cardinality(S) : a # b => q[a] # q[b]}

TimeframePool == {"1d", "8h"}

\* The place of a timeframe label in sorted(timeframes), the order of
\* Python strings.
TimeframeRank(timeframe) ==
    CASE timeframe = "1d" -> 1
      [] timeframe = "1h" -> 2
      [] timeframe = "1m" -> 3
      [] timeframe = "1s" -> 4
      [] timeframe = "3m" -> 5
      [] timeframe = "4h" -> 6
      [] OTHER -> 7

RECURSIVE SortedTimeframes(_)
SortedTimeframes(S) ==
    IF S = {} THEN <<>>
    ELSE LET m == CHOOSE x \in S : \A y \in S : TimeframeRank(x) <= TimeframeRank(y)
         IN  <<m>> \o SortedTimeframes(S \ {m})

\* deribit.py:840-847, parallel:744-746: the filters of the three market
\* lists.
IsSpot(m) == m.type = "spot"

IsFutures(m) == m.type \in {"future", "swap"}

IsOption(m) == m.type = "option"

\* deribit.py:883-887, parallel:772-776: the keys of a market list, symbol
\* by symbol in the order of the list and, for each, timeframe by timeframe
\* in sorted order.
UnitsOf(market_type, market_list, sorted_timeframes) ==
    [k \in 1..(Len(market_list) * Len(sorted_timeframes)) |->
        <<market_type,
          market_list[((k - 1) \div Len(sorted_timeframes)) + 1].symbol,
          sorted_timeframes[((k - 1) % Len(sorted_timeframes)) + 1]>>]

\* deribit.py:839-890, parallel:743-779: the sequence of instrument keys
\* process_exchange comes to.
VisitOrder(markets, timeframes) ==
    UnitsOf("spot", SelectSeq(markets, IsSpot), SortedTimeframes(timeframes))
        \o UnitsOf("futures", SelectSeq(markets, IsFutures), SortedTimeframes(timeframes))
        \o UnitsOf("options", SelectSeq(markets, IsOption), SortedTimeframes(timeframes))

InitVisit ==
    /\ variant \in Variants
    /\ units = UnitOrder
    /\ UpsertAtRest
    /\ PipelineAtRest
    /\ save = NoSave
    /\ listing = NoListing
    /\ startup = NoStartup
    /\ instances = NoInstances
    /\ capture = NoCapture
    /\ venues = NoVenues
    /\ \E S \in SUBSET Markets, timeframes \in SUBSET TimeframePool :
          /\ S # {}
          /\ timeframes # {}
          /\ \E first, second \in ListingsOf(S) :
                visit = [first |-> first, second |-> second, timeframes |-> timeframes,
                         orders |-> <<>>]

\* The two runs go through their units.
VisitUnits ==
    /\ visit.orders = <<>>
    /\ visit' = [visit EXCEPT !.orders = <<VisitOrder(visit.first, visit.timeframes),
                                           VisitOrder(visit.second, visit.timeframes)>>]
    /\ UNCHANGED <<configVars, upsertVars, pipelineVars, save, listing, startup, instances,
                   capture, venues>>

NextVisit == VisitUnits

SpecVisit == InitVisit /\ [][NextVisit]_vars

------------------------------------------------------------------------------
(***************************************************************************)
(* SpecCapture: fetch_all_public_data for one unit with an empty table,     *)
(* from the first auxiliary sub-fetch to the end of the fetch loop.  Each   *)
(* sub-fetch may be unsupported by the venue, return a value, return        *)
(* nothing, or raise.  The venue holds two candles, one before and one      *)
(* after the capture time, and returns one per fetch; a candle fetch may    *)
(* fail (not twice in a row) and is then tried again.                       *)
(***************************************************************************)

\* market_type as process_exchange passes it (deribit.py:868-872,
\* parallel:757-761).
MarketTypes == {"spot", "futures", "options"}

SubFetchOutcomes == {"unsupported", "value", "empty", "raises"}

\* The test that guards a sub-fetch besides the venue's support for it:
\* funding rate and open interest are for futures only (deribit.py:607,
\* parallel:532 and 541, which test market_type in ['future', 'swap']).
AppliesTo(v, market_type, f) ==
    IF f \in {"funding", "open_interest"}
    THEN IF v = "deribit" THEN market_type \in FuturesLike
         ELSE market_type \in {"future", "swap"}
    ELSE TRUE

\* The snapshot dicts as the sub-fetches left them; every value captured
\* is 1.
CapturedAux(got) ==
    [ticker_data    |-> IF got["ticker"]
                        THEN << <<CaptureTime, [bid |-> 1, last |-> 1]>> >> ELSE <<>>,
     orderbook_data |-> IF got["orderbook"]
                        THEN << <<CaptureTime, << <<1, 1>> >> >> >> ELSE <<>>,
     funding_data   |-> IF got["funding"] THEN << <<CaptureTime, 1>> >> ELSE <<>>]

\* The market_info of the unit's instrument, as far as
\* insert_comprehensive_data reads it: the metadata of an option has a
\* strike (of 1), that of a spot or futures instrument has none.
MarketInfoFor(market_type) == [strike |-> IF market_type = "options" THEN 1 ELSE Null]

\* What the venue's candle fetches return, one after the other.
CaptureBatches == << <<FullCandle(FirstTime, 1)>>, <<FullCandle(SecondTime, 1)>> >>

InitCapture ==
    /\ variant \in Variants
    /\ units = UnitOrder
    /\ PipelineAtRest
    /\ ProbesAtRest
    /\ stream_type \in MarketTypes
    /\ rows = {}
    /\ pre_rows = {}
    /\ call = NoCall
    /\ calls = 0

\* One auxiliary sub-fetch, deribit.py:588-623, parallel:513-547: issued
\* when it applies to the market type and the venue supports it; the result
\* is kept when there is one, and an exception is passed.  `outcome` is what
\* the venue makes of the sub-fetch, whether the program issues it or not.
CaptureAux(outcome) ==
    /\ capture.pc \in 1..Len(SubFetchOrder)
    /\ \E f \in {SubFetchOrder[capture.pc]} :
          IF AppliesTo(variant, stream_type, f) /\ outcome # "unsupported"
          THEN capture' = [capture EXCEPT !.pc = @ + 1,
                                          !.outcome[f] = outcome,
                                          !.issued[f] = @ + 1,
                                          !.got[f] = (outcome = "value"),
                                          !.events = Append(@, f)]
          ELSE capture' = [capture EXCEPT !.pc = @ + 1, !.outcome[f] = outcome]
    /\ UNCHANGED <<configVars, upsertVars, pipelineVars, save, listing, startup, instances,
                   visit, venues>>

\* A fetch loop that captures the ticker again with every candle fetch.
CaptureCandlesAndTicker(fails) ==
    /\ capture.pc = Len(SubFetchOrder) + 1
    /\ fails => ~capture.failed
    /\ IF fails
       THEN /\ capture' = [capture EXCEPT !.failed = TRUE,
                                          !.issued["ticker"] = @ + 1,
                                          !.events = @ \o <<"ticker", "candles">>]
            /\ UNCHANGED rows
       ELSE IF capture.batches = Len(CaptureBatches)
       THEN /\ capture' = [capture EXCEPT !.pc = @ + 1, !.failed = FALSE,
                                          !.issued["ticker"] = @ + 1,
                                          !.events = @ \o <<"ticker", "candles">>]
            /\ UNCHANGED rows
       ELSE /\ capture' = [capture EXCEPT !.batches = @ + 1, !.failed = FALSE,
                                          !.issued["ticker"] = @ + 1,
                                          !.events = @ \o <<"ticker", "candles">>]
            /\ rows' = insert_comprehensive_data(
                            variant, rows, CaptureBatches[capture.batches + 1],
                            CapturedAux(capture.got), stream_type,
                            MarketInfoFor(stream_type), NoFail).rows
    /\ UNCHANGED <<configVars, stream_type, pre_rows, call, calls, pipelineVars, save,
                   listing, startup, instances, visit, venues>>

\* One turn of the fetch loop, deribit.py:636-726, parallel:560-648: the
\* candle fetch fails and is tried again, or returns nothing and the loop
\* ends, or returns a batch that is inserted with the snapshot dicts.
CaptureCandles(fails) ==
    /\ capture.pc = Len(SubFetchOrder) + 1
    /\ fails => ~capture.failed
    /\ IF fails
       THEN /\ capture' = [capture EXCEPT !.failed = TRUE,
                                          !.events = Append(@, "candles")]
            /\ UNCHANGED rows
       ELSE IF capture.batches = Len(CaptureBatches)
       THEN /\ capture' = [capture EXCEPT !.pc = @ + 1, !.failed = FALSE,
                                          !.events = Append(@, "candles")]
            /\ UNCHANGED rows
       ELSE /\ capture' = [capture EXCEPT !.batches = @ + 1, !.failed = FALSE,
                                          !.events = Append(@, "candles")]
            /\ rows' = insert_comprehensive_data(
                            variant, rows, CaptureBatches[capture.batches + 1],
                            CapturedAux(capture.got), stream_type,
                            MarketInfoFor(stream_type), NoFail).rows
    /\ UNCHANGED <<configVars, stream_type, pre_rows, call, calls, pipelineVars, save,
                   listing, startup, instances, visit, venues>>

NextCapture ==
    \/ \E outcome \in SubFetchOutcomes : CaptureAux(outcome)
    \/ \E fails \in BOOLEAN : CaptureCandles(fails)

SpecCapture == InitCapture /\ [][NextCapture]_vars

------------------------------------------------------------------------------
(***************************************************************************)
(* SpecMain: one run of main over the venues of SELECTED_EXCHANGES, from    *)
(* the head of its loop to its final save.  process_exchange is followed    *)
(* through load_markets and the opening of storage; the venue has one unit, *)
(* which is processed in one step.  At most one interrupt is raised.        *)
(***************************************************************************)

\* max_retries of process_exchange.
max_retries == 3

\* A load_markets loop that tries again whatever the count.
RetriesAlwaysLeft(retry_count) == TRUE

\* deribit.py:808 and 815, parallel:707 and 714  retry_count < max_retries.
RetriesLeft(retry_count) == retry_count < max_retries

\* What a call of load_markets does: it returns the markets, returns none,
\* raises one of ccxt.NetworkError, RequestTimeout, ExchangeError, or raises
\* something else.
LoadOutcomes == {"markets", "no markets", "network error", "other error"}

\* What the processing of a unit comes to: rows inserted, none inserted, or
\* an exception that the handler of the unit passes (deribit.py:993-995).
UnitOutcomes == {"rows", "no rows", "error"}

\* Where in the processing of a unit an interrupt is raised.
InterruptPlaces ==
    {"fetch_ohlcv", "insert_comprehensive_data", "table_has_data", "get_listing_timestamp"}

\* The places inside a bare `except:`, which takes a KeyboardInterrupt as it
\* takes any exception: int(market_info['created']) of
\* get_listing_timestamp in both programs (deribit.py:437-440,
\* parallel:218-221) and the query of table_has_data in the parallel
\* variant (parallel:288-295; deribit.py:467 has `except Error`).  The
\* handlers of the fetch loop, of fetch_all_public_data, of the unit and of
\* the venue are `except Exception` and let it through.
AbsorbsInterrupt(v, place) ==
    \/ place = "get_listing_timestamp"
    \/ v = "parallel" /\ place = "table_has_data"

CurrentExchange == SelectedExchanges[venues.pos]

\* process_exchange returns `value` to main, which goes on to the next
\* venue (deribit.py:1059-1063).
ReturnToMain(v, value) ==
    [v EXCEPT !.result[CurrentExchange] = value, !.pos = @ + 1, !.pc = "process",
              !.retry_count = 0]

InitMain ==
    /\ variant \in Variants
    /\ units = UnitOrder
    /\ UpsertAtRest
    /\ PipelineAtRest
    /\ save = NoSave
    /\ listing = NoListing
    /\ startup = NoStartup
    /\ instances = NoInstances
    /\ visit = NoVisit
    /\ capture = NoCapture
    \* The checkpoint main loaded lists no venue as completed, or the first.
    /\ \E completed \in {<<>>, <<SelectedExchanges[1]>>} :
          venues = [NoVenues EXCEPT !.completed_exchanges = completed]

\* process_exchange up to load_markets, deribit.py:781-806, parallel:680-705:
\* a venue in completed_exchanges returns True at once.
ProcessExchange ==
    /\ venues.pc = "process"
    /\ venues.pos <= Len(SelectedExchanges)
    /\ venues' = IF CurrentExchange \in SeqToSet(venues.completed_exchanges)
                 THEN ReturnToMain(venues, "True")
                 ELSE [venues EXCEPT !.pc = "load_markets", !.retry_count = 0]
    /\ UNCHANGED <<configVars, upsertVars, pipelineVars, save, listing, startup, instances,
                   visit, capture>>

\* One turn of the load_markets loop, deribit.py:808-830, parallel:707-729.
\* A network error is counted and, while retries are left, followed by a
\* sleep and another turn; the last one is raised again.  What is raised
\* reaches the handler of process_exchange (deribit.py:1018-1022), which
\* returns False, as does `if not markets`.
LoadMarkets(outcome) ==
    /\ venues.pc = "load_markets"
    /\ \E called \in {[venues EXCEPT !.calls[CurrentExchange] = @ + 1]} :
          venues' =
             CASE outcome = "markets" -> [called EXCEPT !.pc = "storage"]
               [] outcome = "no markets" -> ReturnToMain(called, "False")
               [] outcome = "network error" ->
                     LET counted == [called EXCEPT !.failures[CurrentExchange] = @ + 1,
                                                   !.retry_count = @ + 1]
                     IN  IF RetriesLeft(counted.retry_count)
                         THEN counted
                         ELSE ReturnToMain(counted, "False")
               [] OTHER ->
                     ReturnToMain([called EXCEPT !.failures[CurrentExchange] = @ + 1],
                                  "False")
    /\ UNCHANGED <<configVars, upsertVars, pipelineVars, save, listing, startup, instances,
                   visit, capture>>

\* deribit.py:832-837, parallel:731-739: the database is created and the
\* connection opened; when that fails process_exchange returns False (by
\* its handler in deribit.py, by `if not connection` in the parallel
\* variant).
OpenStorage(ok) ==
    /\ venues.pc = "storage"
    /\ venues' = IF ok
                 THEN [venues EXCEPT !.pc = "unit", !.opened = @ \cup {CurrentExchange}]
                 ELSE ReturnToMain(venues, "False")
    /\ UNCHANGED <<configVars, upsertVars, pipelineVars, save, listing, startup, instances,
                   visit, capture>>

\* The unit of the venue, deribit.py:894-995, parallel:783-879: it is
\* recorded in completed_instruments when rows were inserted.
ProcessUnit(outcome) ==
    /\ venues.pc = "unit"
    /\ venues' = [venues EXCEPT
                      !.pc = "mark",
                      !.visited = @ \cup {CurrentExchange},
                      !.completed_instruments =
                          IF outcome = "rows" THEN @ \cup {CurrentExchange} ELSE @]
    /\ UNCHANGED <<configVars, upsertVars, pipelineVars, save, listing, startup, instances,
                   visit, capture>>

\* A KeyboardInterrupt is raised while the unit is processed.  Inside a bare
\* except it is taken and the unit goes on; anywhere else it passes every
\* handler up to main's, which leaves the loop over the venues
\* (deribit.py:1064-1067, parallel:948-951).
InterruptUnit(place) ==
    /\ venues.pc = "unit"
    /\ venues.interrupted = ""
    /\ venues' = IF AbsorbsInterrupt(variant, place)
                 THEN [venues EXCEPT !.interrupted = CurrentExchange,
                                     !.absorbed = TRUE,
                                     !.visited = @ \cup {CurrentExchange}]
                 ELSE [venues EXCEPT !.interrupted = CurrentExchange,
                                     !.visited = @ \cup {CurrentExchange},
                                     !.result[CurrentExchange] = "interrupt",
                                     !.pc = "final"]
    /\ UNCHANGED <<configVars, upsertVars, pipelineVars, save, listing, startup, instances,
                   visit, capture>>

\* process_exchange after the unit loop, deribit.py:1000-1016,
\* parallel:884-900: the venue is added to completed_exchanges unless it is
\* there, and True returned.
MarkExchange ==
    /\ venues.pc = "mark"
    /\ venues' = ReturnToMain(
                    [venues EXCEPT !.completed_exchanges =
                        IF CurrentExchange \in SeqToSet(@) THEN @
                        ELSE Append(@, CurrentExchange)],
                    "True")
    /\ UNCHANGED <<configVars, upsertVars, pipelineVars, save, listing, startup, instances,
                   visit, capture>>

\* main after its loop, deribit.py:1072-1075, parallel:956-959: end_time is
\* stamped and the checkpoint saved.
MainEnd ==
    /\ \/ venues.pc = "process" /\ venues.pos > Len(SelectedExchanges)
       \/ venues.pc = "final"
    /\ venues' = [venues EXCEPT !.pc = "exit", !.final_saves = @ + 1]
    /\ UNCHANGED <<configVars, upsertVars, pipelineVars, save, listing, startup, instances,
                   visit, capture>>

NextMain ==
    \/ ProcessExchange
    \/ \E outcome \in LoadOutcomes : LoadMarkets(outcome)
    \/ \E ok \in BOOLEAN : OpenStorage(ok)
    \/ \E outcome \in UnitOutcomes : ProcessUnit(outcome)
    \/ \E place \in InterruptPlaces : InterruptUnit(place)
    \/ MarkExchange
    \/ MainEnd

SpecMain == InitMain /\ [][NextMain]_vars

------------------------------------------------------------------------------
(***************************************************************************)
(* SpecRetry: runs against a venue whose candle fetch may fail any number   *)
(* of times in a row, with any of the failures the loop tells apart.  The   *)
(* storage does not fail and the process does not crash, so that every      *)
(* unit is fetched from an empty table.                                     *)
(***************************************************************************)

NextRetry ==
    \/ \E clock \in RunTimes : StartRun(clock)
    \/ \E level \in SnapshotLevels : BeginFetch(level)
    \/ \E limit \in 1..BatchLimit : FetchBatch(limit, NoFail, now)
    \/ RecordBatch
    \/ \E kind \in RetryKinds : FetchError(kind)
    \/ FetchNotFound
    \/ FinishUnit
    \/ FinishExchange

SpecRetry == Init /\ [][NextRetry]_vars

------------------------------------------------------------------------------
(***************************************************************************)
(* SpecSave: save_checkpoint and load_checkpoint followed step by step.  A  *)
(* process loads the document, changes it the way the pipeline does after   *)
(* a batch and after an up-to-date unit, and saves it: open(..., 'w')       *)
(* truncates the file, json.dump then writes the document and the file is   *)
(* closed.  The process may die at any point, also between the two.  pc is  *)
(* "idle" (no process), "held" (the document is in memory) or "writing"     *)
(* (inside save_checkpoint, the file open).                                 *)
(***************************************************************************)

\* Calls of save_checkpoint that are followed.
MaxSaves == 2

\* main, deribit.py:1044-1046: the document is loaded.
LoadDocument ==
    /\ pc = "idle"
    /\ runs < MaxRuns
    /\ runs' = runs + 1
    /\ checkpoint' = load_checkpoint(file, disk)
    /\ pc' = "held"
    /\ UNCHANGED <<configVars, upsertVars, probeVars, now, unit, tables, disk, loop, sleep,
                   loaded, resolved, stored_at_start, loop_batches, failed, horizon_seen,
                   fetched, file, retries>>

\* The document is changed in memory: the timestamp of a stream is recorded
\* (deribit.py:655-670) or the stream is marked complete (deribit.py:917-924).
UpdateDocument(key, last_batch_timestamp, completed) ==
    /\ pc = "held"
    /\ save.calls < MaxSaves
    /\ checkpoint' = IF completed
                     THEN MarkCompletedOnce(checkpoint, key)
                     ELSE BatchCheckpoint(checkpoint, key, 1, last_batch_timestamp)
    /\ checkpoint' # checkpoint
    /\ UNCHANGED <<configVars, upsertVars, probeVars, now, runs, pc, unit, tables, disk, loop,
                   sleep, loaded, resolved, stored_at_start, loop_batches, failed,
                   horizon_seen, fetched, file, retries>>

\* save_checkpoint, deribit.py:251-253 (parallel:185-187): the file is opened
\* with mode 'w', which empties it.
SaveOpen ==
    /\ pc = "held"
    /\ save.calls < MaxSaves
    /\ save' = [before |-> load_checkpoint(file, disk),
                after  |-> checkpoint,
                calls  |-> save.calls + 1]
    /\ file' = "partial"
    /\ pc' = "writing"
    /\ UNCHANGED <<configVars, upsertVars, listing, startup, instances, visit, capture, venues, now, runs, unit,
                   tables, checkpoint,
                   disk, loop, sleep, loaded, resolved, stored_at_start, loop_batches,
                   failed, horizon_seen, fetched, retries>>

\* save_checkpoint, deribit.py:254 (parallel:188): json.dump has written the
\* document and the file is closed.
SaveDump ==
    /\ pc = "writing"
    /\ disk' = checkpoint
    /\ file' = "whole"
    /\ pc' = "held"
    /\ UNCHANGED <<configVars, upsertVars, probeVars, now, runs, unit, tables, checkpoint,
                   loop, sleep, loaded, resolved, stored_at_start, loop_batches, failed,
                   horizon_seen, fetched, retries>>

\* The process dies; the file stays as it is.
CrashDocument ==
    /\ pc \in {"held", "writing"}
    /\ pc' = "idle"
    /\ checkpoint' = EmptyCheckpoint
    /\ UNCHANGED <<configVars, upsertVars, probeVars, now, runs, unit, tables, disk, loop,
                   sleep, loaded, resolved, stored_at_start, loop_batches, failed,
                   horizon_seen, fetched, file, retries>>

NextSave ==
    \/ LoadDocument
    \/ \E key \in SeqToSet(units), completed \in BOOLEAN :
          UpdateDocument(key, UnitCreated(key), completed)
    \/ SaveOpen
    \/ SaveDump
    \/ CrashDocument

SpecSave == Init /\ [][NextSave]_vars

------------------------------------------------------------------------------
(***************************************************************************)
(* Claims about insert_comprehensive_data, checked under SpecUpsert.        *)
(***************************************************************************)

\* The columns of a stored row other than its key.
Columns ==
    {"open", "high", "low", "close", "volume", "extra",
     "bid", "last", "best_bid", "funding_rate", "strike"}

OhlcvColumns == {"open", "high", "low", "close", "volume"}

\* The ticker, order-book, futures and option columns.
MutableColumns == {"bid", "last", "best_bid", "funding_rate", "strike"}

RowAt(tbl, ts) == CHOOSE r \in tbl : r.ts = ts

HasRow(tbl, ts) == \E r \in tbl : r.ts = ts

\* The last call of the sequence, made again on the table `tbl`.
Rerun(tbl, fail) ==
    insert_comprehensive_data(variant, tbl, call.batch, AuxOf(call.level),
                              stream_type, MarketInfoOf(call.level), fail)

\* The positions of the last call's batch whose candle was written over a
\* row that was already stored.
UpdatedPositions ==
    {i \in 1..Len(call.batch) :
        /\ ~CandleSkipped(variant, call.batch[i])
        /\ HasRow(pre_rows, StorageKey(variant, call.batch[i].ts))}

IncomingRow(i) ==
    CandleRow(variant, call.batch[i], AuxOf(call.level), stream_type, MarketInfoOf(call.level))

------------------------------------------------------------------------------
(***************************************************************************)
(* Properties of insert_comprehensive_data, under SpecUpsert.               *)
(***************************************************************************)

\* C2: over every sequence of upserts on one stream, a stored field that is
\* non-null for a timestamp is not null after a later upsert: the row is
\* still there and each of its non-null fields is still non-null.
C2_NoNullRegression ==
    \A r \in pre_rows :
        /\ HasRow(rows, r.ts)
        /\ \A f \in Columns : r[f] # Null => RowAt(rows, r.ts)[f] # Null

\* C9: upsert is idempotent.  After a call, making the same call again (under
\* the same storage conditions, or under any when the first met no storage
\* error) leaves the table unchanged, and the table holds one row per
\* timestamp.
C9_UpsertIdempotent ==
    calls > 0 =>
        /\ \A r \in rows, q \in rows : r.ts = q.ts => r = q
        /\ \A fail \in FailPool :
              (call.fail = NoFail \/ fail = call.fail) => Rerun(rows, fail).rows = rows

\* C9 witness: a call wrote over a stored row and changed it, and a second
\* such call has been made.
C9_Witness ==
    /\ calls = 2
    /\ call.inserted > 0
    /\ \E r \in pre_rows : HasRow(rows, r.ts) /\ RowAt(rows, r.ts) # r

------------------------------------------------------------------------------
(***************************************************************************)
(* Properties of the runs, under Spec and SpecIdeal.                        *)
(***************************************************************************)

InLoop == pc \in {"fetch", "batch"}

LaterOf(a, b) == IF a > b THEN a ELSE b

\* C1: when the table holds a last timestamp T and/or the checkpoint a last
\* timestamp C for the stream, the `since` of the unit's first candle fetch
\* is the later of T and C (the one that exists when only one does) plus one
\* timeframe duration.
C1_SinceIsLaterOfStoredAndCheckpoint ==
    (resolved.key # "" /\ (resolved.db_timestamp # Null \/ resolved.checkpoint_timestamp # Null))
        => resolved.since =
              LaterOf(resolved.db_timestamp, resolved.checkpoint_timestamp)
                  + get_timeframe_duration_ms(variant, UnitTimeframe(resolved.key))

C15_InterruptedStreamResumes ==
    (runs >= 2 /\ resolved.key # "" /\ stored_at_start[resolved.key] # {}) =>
        /\ stored_at_start[resolved.key] \subseteq StoredTimes(tables[resolved.key])
        /\ resolved.since # get_listing_timestamp(UnitMarketInfo(resolved.key), now, MsPerSecond)
        /\ \E last \in {SetMax(stored_at_start[resolved.key]), resolved.checkpoint_timestamp} :
              /\ last # Null
              /\ resolved.since =
                    last + get_timeframe_duration_ms(variant, UnitTimeframe(resolved.key))

\* C16: repeated runs leave every unit of the venue with stored data that
\* reaches the horizon.  Once the checkpoint file lists the venue in
\* completed_exchanges no later run visits any of its units, so by then
\* every unit holds rows, and in deribit.py rows up to the cutoff date (the
\* horizon of the parallel variant moves with the clock: of its streams only
\* the rows are asked for).
C16_CompletedVenueIsCovered ==
    (file = "whole" /\ ExchangeId \in SeqToSet(disk.completed_exchanges)) =>
        \A k \in SeqToSet(units) :
            /\ table_has_data(tables[k])
            /\ variant = "deribit" => DateOf(get_last_timestamp(tables[k])) >= CutoffDate

\* The batches the running fetch loop persisted whose last timestamp the
\* checkpoint file does not cover.
UnrecordedBatches ==
    {i \in 1..Len(loop_batches) :
        \/ disk.last_timestamp[resolved.key] = Null
        \/ loop_batches[i] > disk.last_timestamp[resolved.key]}

C5_FailedBatchFetchedAgain ==
    (pc = "fetch" /\ failed.pending) => loop.current_since = failed.since

\* C6: a stream key is in completed_instruments of the checkpoint file only
\* if a run observed the stream's stored data at the horizon (it found the
\* table up to date, or a batch that wrote rows reached the horizon).
C6_CompleteOnlyAtHorizon ==
    \A k \in SeqToSet(disk.completed_instruments) : k \in horizon_seen

\* C7: a unit whose key the loaded checkpoint lists in completed_instruments
\* is not fetched during the run, and its table keeps the timestamps it had.
C7_CompletedUnitNotFetched ==
    \A k \in loaded :
        /\ k \notin fetched
        /\ StoredTimes(tables[k]) = stored_at_start[k]

\* C7 witness: the run has passed over a unit listed as complete and is
\* fetching another.
C7_Witness ==
    /\ InLoop
    /\ fetched # {}
    /\ \E i \in 1..Len(units) : i < unit /\ units[i] \in loaded

\* The persisted tail of a stream is stale, by the test of either variant:
\* the last row is dated before the cutoff date (deribit.py:909-914) or
\* before today (parallel:323-326).
StaleTail(v, tbl, clock) ==
    /\ table_has_data(tbl)
    /\ DateOf(get_last_timestamp(tbl)) < (IF v = "deribit" THEN CutoffDate ELSE DateOf(clock))

\* C19: completion is revocable: a run that comes to a stream which the
\* checkpoint lists as complete and whose persisted tail is stale removes
\* the mark and fetches the stream again; it does not pass the stream over.
C19_StaleCompletionRevoked ==
    [][(/\ pc = "unit"
        /\ unit <= Len(units)
        /\ units[unit] \in loaded
        /\ StaleTail(variant, tables[units[unit]], now)
        /\ unit' # unit)
           => /\ units[unit] \in fetched'
              /\ units[unit] \notin SeqToSet(checkpoint'.completed_instruments)]_vars

\* No fetch is issued after a batch that reached the horizon (the cutoff
\* instant in deribit.py, the time at the batch in the parallel variant).
NoFetchPastHorizon ==
    (pc = "fetch" /\ loop.batch_count > 0) => loop.last < loop.horizon

\* The loop ends at a batch that reached the horizon, not before.
EndsAtHorizon ==
    pc = "done" =>
        /\ loop.exit = "cutoff"
        /\ loop.batch_count > 0
        /\ loop.last >= loop.horizon

\* C8: against a source that returns non-empty batches of increasing
\* timestamps and never fails, the fetch loop ends (the process not
\* crashing), it issues no fetch after a batch whose last timestamp is at or
\* after the horizon, and it ends at such a batch.
C8_LoopEndsAtFirstHorizonBatch ==
    /\ [](NoFetchPastHorizon /\ EndsAtHorizon)
    /\ (InLoop ~> ~InLoop)

\* C8 witness: a loop has ended at its second batch, the first not having
\* reached the horizon.
C8_Witness ==
    /\ pc = "done"
    /\ loop.exit = "cutoff"
    /\ loop.batch_count >= 2
    /\ loop.last >= loop.horizon

------------------------------------------------------------------------------
(***************************************************************************)
(* The first `since` of a stream without timestamps, under SpecListing.     *)
(***************************************************************************)

\* C18: with neither a storage nor a checkpoint timestamp, `since` is the
\* instrument's listing time; when the listing time is missing, unparsable
\* or in the future, `since` is five years before now.
C18_ListingTimeOrFiveYearFallback ==
    listing.returned =>
        listing.since =
            IF /\ listing.created # Null
               /\ listing.created # Unparsable
               /\ listing.created <= listing.clock
            THEN listing.created
            ELSE listing.clock - FiveYearsSeconds

------------------------------------------------------------------------------
(***************************************************************************)
(* Fatal conditions at startup, under SpecStartup.                          *)
(***************************************************************************)

\* C20: a run that meets a fatal startup condition (credentials unreadable,
\* storage unreachable) processes no unit, and the checkpoint file after
\* the run is the file before it.
C20_FatalStartupLeavesCheckpoint ==
    [][(/\ runs' = runs + 1
        /\ startup'.run = runs'
        /\ startup'.condition \in StartupConditions)
           => /\ tables' = tables
              /\ fetched' = {}
              /\ pc' = "idle"
              /\ file' = file
              /\ disk' = disk]_vars

------------------------------------------------------------------------------
(***************************************************************************)
(* The synthetic unit, under SpecScenario.                                  *)
(***************************************************************************)

\* The time of the final point of the synthetic unit's source.
FinalPoint == SetMax(VenueSeries(SyntheticOrder[1]))

\* C17: for the unit without prior data whose source returns batches of 3
\* points from since = 0 on, the last timestamp of the second batch being at
\* or after the horizon, the fetch loop starts at 0 and ends after exactly
\* 2 fetches, both persisted; and once the run has recorded the unit, the
\* checkpoint file has the final point's timestamp as the stream's last
\* timestamp and lists the stream as complete, all six points being stored.
C17_TwoBatchesThenComplete ==
    /\ resolved.key # "" => resolved.since = 0
    /\ pc = "done" =>
          /\ loop.exit = "cutoff"
          /\ loop.batch_count = 2
          /\ Len(loop_batches) = 2
          /\ loop_batches[2] = FinalPoint
    /\ (runs >= 1 /\ (pc = "idle" \/ unit > 1)) =>
          \A k \in SeqToSet(units) :
              /\ disk.last_timestamp[k] = FinalPoint
              /\ k \in SeqToSet(disk.completed_instruments)
              /\ StoredTimes(tables[k]) = VenueSeries(k)

\* C17 witness: the run has recorded the unit after a loop of two batches of
\* three points each.
C17_Witness ==
    /\ pc = "unit"
    /\ unit = 2
    /\ runs = 1
    /\ units[1] \in fetched
    /\ Cardinality(tables[units[1]]) = 2 * ScenarioLimit
    /\ disk.last_timestamp[units[1]] = FinalPoint
    /\ units[1] \in SeqToSet(disk.completed_instruments)

------------------------------------------------------------------------------
(***************************************************************************)
(* Properties of the failure handling of the fetch loop, under SpecRetry.   *)
(***************************************************************************)

\* The failures the loop takes for a rate limit: ccxt.RateLimitExceeded and
\* any other exception whose message has 'rate limit', '429' or 'too many
\* requests'.
RateLimitedKinds == {"RateLimitExceeded", "rate limit message"}

\* The greatest backoff multiplier, min(..., 30).
BackoffCeiling == 30

\* C11: over consecutive rate-limited failures of the candle fetch in one
\* unit (up to MaxConsecutiveFailures of them), the sleep before a retry is
\* not shorter than the sleep before the retry preceding it, and the sleep
\* before any retry is at most 30 times the venue's minimum request
\* interval.
C11_BackoffNonDecreasingAndCapped ==
    (pc = "fetch" /\ retries.count > 0 /\ retries.kind \in RateLimitedKinds) =>
        /\ retries.sleep <= BackoffCeiling * PacingSleep
        /\ (retries.count > 1 /\ retries.prev_kind \in RateLimitedKinds)
              => retries.sleep >= retries.prev_sleep

\* C12: after a candle fetch that failed with a rate limit, a DDoS
\* protection or any other error that is not 'not found' / 'invalid', and
\* after any number of such failures in a row, the loop has slept and is
\* about to fetch with the cursor the first failed fetch was issued with:
\* the unit has not ended and nothing has left fetch_all_public_data.
C12_FailedFetchRetriedAtSameCursor ==
    retries.count > 0 =>
        /\ pc = "fetch"
        /\ loop.exit = "none"
        /\ loop.current_since = retries.since
        /\ sleep > 0

\* C12 witness: MaxConsecutiveFailures fetches have failed in a row, after a
\* batch was stored, the last two with different kinds of failure.
C12_Witness ==
    /\ pc = "fetch"
    /\ retries.count = MaxConsecutiveFailures
    /\ retries.kind # retries.prev_kind
    /\ loop.batch_count > 0

\* C13: a candle fetch that fails with 'not found' or 'invalid' ends the
\* fetch loop at once: no row is written and no fetch issued after it, the
\* count fetch_all_public_data returns is the number of rows written so far,
\* and the next step of process_exchange is the next unit of the venue.
C13_NotFoundEndsUnitOnly ==
    [][/\ (pc = "fetch" /\ loop'.exit = "abort") =>
            /\ pc' = "done"
            /\ tables' = tables
            /\ loop'.total_inserted = loop.total_inserted
            /\ loop'.total_inserted = Cardinality(tables[CurrentKey])
       /\ (pc = "done" /\ loop.exit = "abort") =>
            /\ pc' = "unit"
            /\ unit' = unit + 1
            /\ tables' = tables]_vars

\* C13 witness: the fetch of the first unit failed with 'not found' after a
\* batch was stored, and the loop has ended.
C13_Witness ==
    /\ pc = "done"
    /\ loop.exit = "abort"
    /\ loop.total_inserted > 0
    /\ unit < Len(units)

------------------------------------------------------------------------------
(***************************************************************************)
(* Properties of the checkpoint file, under SpecSave.                       *)
(***************************************************************************)

\* C14: save_checkpoint replaces the document atomically: when the process
\* has died, during a save or after it, load_checkpoint returns from the
\* file the complete document it held before the last save or the complete
\* document that save wrote.
C14_SaveReplacesAtomically ==
    (pc = "idle" /\ save.calls > 0) =>
        load_checkpoint(file, disk) \in {save.before, save.after}

------------------------------------------------------------------------------
(***************************************************************************)
(* Further properties of insert_comprehensive_data, under SpecUpsert.       *)
(***************************************************************************)

\* C21: no stored row has a null open, high, low or close, and none has a
\* null volume: a point with one of the four missing is discarded, and a
\* point with a missing volume is stored with volume 0.
C21_NoNullOhlcvStored ==
    \A r \in rows :
        /\ r.open # Null
        /\ r.high # Null
        /\ r.low # Null
        /\ r.close # Null
        /\ r.volume # Null

------------------------------------------------------------------------------
(***************************************************************************)
(* Instances running side by side, under SpecInstances.                     *)
(***************************************************************************)

\* C22: two instances of the parallel variant configured with different
\* SELECTED_EXCHANGES lists use different checkpoint files, and the
\* checkpoint file of each keeps every venue the instance has recorded as
\* completed: no save of the other instance takes it away.
C22_InstancesKeepTheirProgress ==
    /\ CheckpointFileName(instances.selected[1]) # CheckpointFileName(instances.selected[2])
    /\ \A i \in 1..2 :
          instances.recorded[i]
              \subseteq instances.files[CheckpointFileName(instances.selected[i])]

------------------------------------------------------------------------------
(***************************************************************************)
(* The sleep after a rate-limited failure, under SpecRetry.                 *)
(***************************************************************************)

\* max(base * 10, base * min(5 * (attempts mod 5 + 1), 30)), in multiples of
\* the base (rate_limit_seconds).
StatedBackoff(attempts) ==
    LET stepped == 5 * ((attempts % 5) + 1)
        capped  == IF stepped < BackoffCeiling THEN stepped ELSE BackoffCeiling
    IN  (IF capped > 10 THEN capped ELSE 10) * PacingSleep

\* C23: on every rate-limited failure of the candle fetch, signalled by the
\* venue's exception or recognised from the error message, the sleep before
\* the retry is max(base * 10, base * min(5 * (attempts mod 5 + 1), 30)),
\* attempts being the counter of the unit's fetch loop.
C23_RateLimitSleepFollowsFormula ==
    (pc = "fetch" /\ retries.count > 0 /\ retries.kind \in RateLimitedKinds) =>
        retries.sleep = StatedBackoff(loop.batch_count)

------------------------------------------------------------------------------
(***************************************************************************)
(* The count insert_comprehensive_data returns, under SpecUpsert.           *)
(***************************************************************************)

\* The positions of the last call's batch whose point is neither rejected
\* nor met by a failing write.
WritablePositions ==
    {i \in 1..Len(call.batch) :
        /\ ~CandleSkipped(variant, call.batch[i])
        /\ i \notin call.fail.exec}

\* C24: insert_comprehensive_data returns exactly the number of points of
\* the batch whose rows are committed.  A point that is rejected or whose
\* write fails is skipped and not counted, and the other points of the batch
\* are still written: when the commit succeeds every such point has its row
\* and the count is their number; when it fails nothing is written and the
\* count is 0.
C24_CountIsCommittedPoints ==
    calls > 0 =>
        IF call.fail.commit
        THEN call.inserted = 0 /\ rows = pre_rows
        ELSE /\ call.inserted = Cardinality(WritablePositions)
             /\ \A i \in WritablePositions :
                   HasRow(rows, StorageKey(variant, call.batch[i].ts))

------------------------------------------------------------------------------
(***************************************************************************)
(* The order of the writes of a fetch loop, under Spec.                     *)
(***************************************************************************)

\* C25: within one stream and one run the rows are written in non-decreasing
\* timestamp order: the batches are written as they are fetched, one after
\* the other, and no row written later has a timestamp before that of a row
\* written earlier, in the same batch or in an earlier one.
C25_WritesInTimestampOrder ==
    \A i, j \in 1..Len(loop.written) :
        i < j => loop.written[i] <= loop.written[j]

\* C25 witness: a loop has written the rows of two batches, those of the
\* second later in time than the first row of the first.
C25_Witness ==
    /\ pc = "batch"
    /\ Len(loop_batches) >= 2
    /\ Len(loop.written) >= 2
    /\ loop.written[1] < loop.written[Len(loop.written)]

------------------------------------------------------------------------------
(***************************************************************************)
(* The unit whose data is already at the horizon, under Spec.               *)
(***************************************************************************)

\* The persisted data of a stream reaches the horizon.
ReachesHorizon(v, tbl, clock) ==
    /\ table_has_data(tbl)
    /\ get_last_timestamp(tbl) >= Horizon(v, clock)

\* The number of times a key is listed.
Occurrences(q, key) == Cardinality({i \in 1..Len(q) : q[i] = key})

\* C26: when process_exchange comes to a unit whose persisted data already
\* reaches the horizon, it goes on to the next unit without a candle fetch
\* and without touching the table; the stream key is then listed once in
\* completed_instruments and the checkpoint file holds that document.
C26_UnitAtHorizonIsPassedAndMarked ==
    [][(/\ pc = "unit"
        /\ unit <= Len(units)
        /\ ReachesHorizon(variant, tables[units[unit]], now)
        /\ pc' # "idle"
        /\ now' = now)
           => /\ pc' = "unit"
              /\ unit' = unit + 1
              /\ units[unit] \notin fetched'
              /\ tables' = tables
              /\ Occurrences(checkpoint'.completed_instruments, units[unit]) = 1
              /\ disk' = checkpoint'
              /\ file' = "whole"]_vars

\* C26 witness: the run has gone past its first unit, which the loaded
\* checkpoint did not list as complete, without fetching it; its data
\* reaches the horizon and the checkpoint file lists it as complete.
C26_Witness ==
    /\ pc = "unit"
    /\ unit = 2
    /\ units[1] \notin loaded
    /\ units[1] \notin fetched
    /\ ReachesHorizon(variant, tables[units[1]], now)
    /\ Occurrences(disk.completed_instruments, units[1]) = 1

------------------------------------------------------------------------------
(***************************************************************************)
(* The order of the units, under SpecVisit.                                 *)
(***************************************************************************)

\* C27: the order in which process_exchange visits the units depends only
\* on the set of instruments and the set of timeframes: two runs over the
\* same sets visit the units in the same sequence, whatever the order in
\* which the venue lists its instruments.
C27_VisitOrderIndependentOfListing ==
    visit.orders # <<>> => visit.orders[1] = visit.orders[2]

------------------------------------------------------------------------------
(***************************************************************************)
(* The snapshot lookup of insert_comprehensive_data, under SpecUpsert.      *)
(***************************************************************************)

\* C28: for every point of a batch, whatever its timestamp relative to the
\* capture time, the lookup returns the one snapshot captured for the unit:
\* when a ticker and an order book were captured, every row the call wrote
\* carries their values.
C28_EveryRowCarriesTheSnapshot ==
    (calls > 0 /\ call.level \in Values /\ ~call.fail.commit /\ call.inserted > 0) =>
        \A i \in WritablePositions :
            LET r == RowAt(rows, StorageKey(variant, call.batch[i].ts))
            IN  /\ r.bid = call.level
                /\ r.last = call.level
                /\ r.best_bid = call.level

------------------------------------------------------------------------------
(***************************************************************************)
(* The auxiliary sub-fetches of a unit, under SpecCapture.                  *)
(***************************************************************************)

CaptureLoop == Len(SubFetchOrder) + 1

CaptureDone == Len(SubFetchOrder) + 2

\* C29: each auxiliary sub-fetch is independent and best-effort.  Whatever
\* the others did, a sub-fetch that applies to the unit and that the venue
\* supports is issued, once and not again; the fetch loop is reached and
\* runs to its end; and a sub-fetch that failed or gave nothing leaves its
\* fields null in the rows of the run.
C29_SubFetchesBestEffort ==
    /\ \A f \in SubFetches : capture.issued[f] <= 1
    /\ capture.pc >= CaptureLoop =>
          \A f \in SubFetches :
              (AppliesTo(variant, stream_type, f) /\ capture.outcome[f] # "unsupported")
                  => capture.issued[f] = 1
    /\ capture.pc = CaptureDone => capture.batches = Len(CaptureBatches)
    /\ \A r \in rows :
          /\ ~capture.got["ticker"] => (r.bid = Null /\ r.last = Null)
          /\ ~capture.got["orderbook"] => r.best_bid = Null
          /\ ~capture.got["funding"] => r.funding_rate = Null

\* The place of the first candle fetch among the fetches issued, past the
\* end when there is none.
FirstCandleFetch ==
    IF \E i \in 1..Len(capture.events) : capture.events[i] = "candles"
    THEN CHOOSE i \in 1..Len(capture.events) :
            /\ capture.events[i] = "candles"
            /\ \A j \in 1..(i - 1) : capture.events[j] # "candles"
    ELSE Len(capture.events) + 1

\* C30: in a unit every auxiliary sub-fetch is issued at most once, and all
\* of them before the first candle fetch: none between batches, none on the
\* retry after a failed candle fetch.
C30_SubFetchesOnceBeforeLoop ==
    /\ \A f \in SubFetches :
          Cardinality({i \in 1..Len(capture.events) : capture.events[i] = f}) <= 1
    /\ \A i \in 1..Len(capture.events) :
          capture.events[i] \in SubFetches => i < FirstCandleFetch

\* C30 witness: the loop has ended after a failed candle fetch, its retry
\* and a second batch, the ticker and the order book having been fetched.
C30_Witness ==
    /\ capture.pc = CaptureDone
    /\ capture.issued["ticker"] = 1
    /\ capture.issued["orderbook"] = 1
    /\ capture.batches = Len(CaptureBatches)
    /\ Len(capture.events) > 2 + Len(CaptureBatches) + 1

\* C31: every row written for a unit that process_exchange enumerates under
\* the option category carries the strike (standing for strike, option
\* flavor and expiry) that the instrument metadata provides.
C31_OptionRowsCarryTheMetadata ==
    stream_type = "options" =>
        \A r \in rows : r.strike = MarketInfoFor(stream_type).strike

\* C32: the funding-rate and open-interest sub-fetches are attempted, where
\* the venue supports them, for the units enumerated under the futures
\* category and for no other unit, and no row of a spot or option unit
\* carries a funding rate or an open interest.
C32_FuturesFieldsForFuturesOnly ==
    \A f \in {"funding", "open_interest"} :
        /\ (capture.pc >= CaptureLoop /\ stream_type = "futures"
                /\ capture.outcome[f] # "unsupported") => capture.issued[f] = 1
        /\ stream_type # "futures" => capture.issued[f] = 0
        /\ stream_type # "futures" => \A r \in rows : r.funding_rate = Null

------------------------------------------------------------------------------
(***************************************************************************)
(* Further properties of the runs, under Spec.                              *)
(***************************************************************************)

\* The last candle fetch of the loop returned nothing.
EndedOnEmptyBatch == pc = "done" /\ loop.exit = "empty"

\* C33: a candle fetch that returns an empty batch ends the unit's loop at
\* once.  The step writes no row, leaves the checkpoint (in memory and in
\* the file) and the cursor as they are; a fetch that finds the venue with
\* no candle at or after the cursor inserts nothing; and once the loop has
\* ended so, no further fetch follows for the unit.
C33_EmptyBatchEndsLoop ==
    [][/\ (pc = "fetch" /\ EndedOnEmptyBatch') =>
              /\ tables' = tables
              /\ checkpoint' = checkpoint
              /\ disk' = disk
              /\ loop'.current_since = loop.current_since
              /\ loop'.written = loop.written
       /\ (pc = "fetch" /\ fetch_ohlcv(CurrentKey, loop.current_since, BatchLimit, now) = <<>>)
              => pc' # "batch"
       /\ EndedOnEmptyBatch => pc' \notin {"fetch", "batch"}]_vars

\* C33 witness: a loop that wrote rows has ended on an empty batch.
C33_Witness ==
    /\ EndedOnEmptyBatch
    /\ loop.total_inserted > 0
    /\ loop.current_since = NextCursor(loop.last)

\* C34: in every checkpoint state, in memory and in the file, the venue is
\* in completed_exchanges only if every unit that process_exchange
\* enumerates for it is in the venue's completed_instruments.
C34_CompletedVenueHasEveryUnit ==
    /\ ExchangeId \in SeqToSet(checkpoint.completed_exchanges) =>
          SeqToSet(units) \subseteq SeqToSet(checkpoint.completed_instruments)
    /\ (file = "whole" /\ ExchangeId \in SeqToSet(disk.completed_exchanges)) =>
          SeqToSet(units) \subseteq SeqToSet(disk.completed_instruments)

------------------------------------------------------------------------------
(***************************************************************************)
(* The checkpoint entry the fetch loop records after a batch, under         *)
(* SpecUpsert: the call followed is the insert of a batch in the loop.      *)
(***************************************************************************)

\* deribit.py:655-667, parallel:579-591: the stream's last_timestamp after
\* the loop has dealt with the batch of the last call, from a checkpoint
\* without an entry for the stream (Null when none is recorded).
RecordedAfterCall ==
    BatchCheckpoint(EmptyCheckpoint, UnitOrder[1], call.inserted,
                    call.batch[Len(call.batch)].ts).last_timestamp[UnitOrder[1]]

\* C35: after every batch the last_timestamp recorded for the stream is the
\* timestamp of a row that exists in storage, also when points of the batch
\* were rejected or skipped.
C35_CheckpointNotAheadOfStorage ==
    (calls > 0 /\ RecordedAfterCall # Null) =>
        HasRow(rows, StorageKey(variant, RecordedAfterCall))

------------------------------------------------------------------------------
(***************************************************************************)
(* Further properties of the fetch loop and of the unit's record, under     *)
(* Spec.  The venue of the model returns only candles at or after the       *)
(* requested `since`.                                                       *)
(***************************************************************************)

\* C36: within one unit the cursor passed to a candle fetch is never below
\* the cursor of the fetch before it; after a non-empty batch it is the
\* last returned timestamp + 1 and strictly greater than before.
C36_CursorOnlyAdvances ==
    [][(InLoop /\ pc' \in {"fetch", "batch", "done"}) =>
          /\ loop'.current_since >= loop.current_since
          /\ (pc = "batch" /\ pc' # "batch") =>
                /\ loop'.current_since = loop.last + 1
                /\ loop'.current_since > loop.current_since]_vars

\* C36 witness: after two non-empty batches a candle fetch has failed and is
\* about to be issued again with the cursor past the second batch.
C36_Witness ==
    /\ pc = "fetch"
    /\ loop.batch_count >= 2
    /\ retries.count > 0
    /\ retries.since = loop.current_since
    /\ loop.current_since = loop.last + 1

\* The fetch loop of the current unit has written no row so far.
NoRowLoop == pc \in {"fetch", "batch", "done"} /\ loop.total_inserted = 0

\* C37: a unit whose fetch loop wrote no row is not recorded.  While the
\* loop has written nothing the unit is not in completed_instruments, in
\* memory or in the file, and its last_timestamp is the one the loop found;
\* the return of such a unit leaves the checkpoint and the file as they are;
\* and a unit enters the file's completed_instruments only while it is the
\* current unit, by its table being found up to date or by the return of a
\* loop that inserted rows.  The next run that processes the venue reads the
\* file and so visits the unit again.
C37_UnitWithoutRowsNotRecorded ==
    [][/\ NoRowLoop =>
              /\ CurrentKey \notin SeqToSet(checkpoint.completed_instruments)
              /\ CurrentKey \notin SeqToSet(disk.completed_instruments)
              /\ checkpoint.last_timestamp[CurrentKey] = resolved.checkpoint_timestamp
       /\ (NoRowLoop /\ pc = "done" /\ pc' = "unit") =>
              /\ checkpoint' = checkpoint
              /\ disk' = disk
       /\ \A k \in SeqToSet(units) :
              (k \notin SeqToSet(disk.completed_instruments)
                    /\ k \in SeqToSet(disk'.completed_instruments)) =>
                  /\ pc \in {"unit", "done"}
                  /\ unit <= Len(units)
                  /\ k = CurrentKey
                  /\ pc = "done" => loop.total_inserted > 0]_vars

\* C37 witness: in a second run the loop of the first unit, whose table is
\* still empty, has ended after a batch that failed to persist, the unit
\* being in no list.
C37_Witness ==
    /\ runs = 2
    /\ NoRowLoop
    /\ pc = "done"
    /\ unit = 1
    /\ loop.batch_count > 0
    /\ tables[CurrentKey] = {}
    /\ CurrentKey \notin SeqToSet(disk.completed_instruments)
    /\ units[2] \in SeqToSet(disk.completed_instruments)

\* C38: over any sequence of runs the venue's completed_instruments holds
\* every stream key at most once and completed_exchanges holds the venue at
\* most once, in the checkpoint of the running process and in the file.
C38_CompletedListsWithoutDuplicates ==
    /\ \A k \in UnitKeys :
          /\ Occurrences(checkpoint.completed_instruments, k) <= 1
          /\ Occurrences(disk.completed_instruments, k) <= 1
    /\ Occurrences(checkpoint.completed_exchanges, ExchangeId) <= 1
    /\ Occurrences(disk.completed_exchanges, ExchangeId) <= 1

\* C38 witness: a second run has passed over the first unit, which an
\* earlier run completed, and has completed the second.
C38_Witness ==
    /\ runs = 2
    /\ pc = "unit"
    /\ unit = Len(units) + 1
    /\ units[1] \in loaded
    /\ units[2] \notin loaded
    /\ checkpoint.completed_instruments = units

------------------------------------------------------------------------------
(***************************************************************************)
(* Properties of main and of the start of process_exchange, under SpecMain. *)
(***************************************************************************)

\* The place of a venue in SELECTED_EXCHANGES.
ExchangeIndex(e) == CHOOSE i \in 1..Len(SelectedExchanges) : SelectedExchanges[i] = e

\* C39: process_exchange calls load_markets at most 3 times; when 3 calls
\* have failed it has returned False, the venue's storage was not opened,
\* none of its units was visited, the venue is not in completed_exchanges,
\* and main has gone on past the venue, which is not where it left its
\* loop.
C39_ThreeFailedLoadsSkipTheVenue ==
    \A e \in SelectedSet :
        /\ venues.calls[e] <= 3
        /\ venues.failures[e] = 3 =>
              /\ venues.result[e] = "False"
              /\ e \notin venues.opened
              /\ e \notin venues.visited
              /\ e \notin SeqToSet(venues.completed_exchanges)
              /\ venues.pos > ExchangeIndex(e)
              /\ venues.interrupted # e

\* C39 witness: load_markets failed three times for the first venue, and
\* main is processing the unit of the second.
C39_Witness ==
    /\ venues.failures[SelectedExchanges[1]] = 3
    /\ venues.calls[SelectedExchanges[1]] = 3
    /\ venues.pos = 2
    /\ venues.pc = "unit"
    /\ SelectedExchanges[2] \in venues.opened

\* C40: an interrupt raised during a unit is absorbed by no handler below
\* main's.  It stops the iteration over the venues: no later venue is
\* processed; the interrupted venue is not added to completed_exchanges and
\* its stream not to completed_instruments; and main makes its final save.
C40_InterruptStopsTheRun ==
    venues.interrupted # "" =>
        /\ ~venues.absorbed
        /\ venues.pc \in {"final", "exit"}
        /\ venues.result[venues.interrupted] = "interrupt"
        /\ venues.interrupted \notin SeqToSet(venues.completed_exchanges)
        /\ venues.interrupted \notin venues.completed_instruments
        /\ \A i \in (ExchangeIndex(venues.interrupted) + 1)..Len(SelectedExchanges) :
              /\ venues.calls[SelectedExchanges[i]] = 0
              /\ venues.result[SelectedExchanges[i]] = "none"
        /\ venues.pc = "exit" => venues.final_saves = 1

====
